---- MODULE Spec2Model ----
(***************************************************************************)
(* Keystone 3D map: the lift infrastructure of src/lifts/LiftData.js       *)
(* (LiftRenderer: stations, towers, cables, animated cabins) over a        *)
(* terrain height function.                                                *)
(*                                                                         *)
(* Numbers.  The source computes in IEEE doubles; the model computes the   *)
(* same expressions exactly, in rationals:                                 *)
(*   - a vector is [x, y, z, d], standing for (x/d, y/d, z/d), d > 0;      *)
(*   - cabin.progress is an integer count of 1/PScale;                     *)
(*   - cabin.speed is an integer count of 1/PScale per second;             *)
(*   - Clock.getDelta() is a whole number of seconds.                      *)
(***************************************************************************)
EXTENDS Integers, Sequences, FiniteSets

VARIABLES
    terrain,      \* the TerrainGenerator the renderer was constructed with
    lifts,        \* the lift table getAllLifts() returns
    seed,         \* the stream Math.random() draws from
    liftGroups,   \* LiftRenderer.liftGroups, in insertion order
    cabins,       \* LiftRenderer.cabins
    generated,    \* generate() has run: group.userData.update is set
    delta,        \* what clock.getDelta() returned in the latest updateCabins
    frames,       \* animation frames rendered so far
    runs,         \* the run table getAllRuns() returns
    runRev,       \* which revision of RunRenderer was constructed
    runMeshes,    \* RunRenderer.runMeshes, in insertion order
    runsGenerated,\* RunRenderer.generate() has returned
    warnings,     \* what the build wrote with console.warn
    terrainMesh,  \* the vertex heights of the mesh TerrainGenerator.generate() built
    calls,        \* the getHeightAt calls made so far, with what they returned
    trees,        \* the TreeGenerator
    treePositions,\* what generateTreePositions() returned
    treeMeshes,   \* the instanced meshes of the group generate() returned
    treesGenerated,\* TreeGenerator.generate() has returned
    appState,     \* the appState object of main.js, its flags
    checked,      \* the checked state of each checkbox of the control panel
    layers,       \* the visible flag of each layer group, the display of labels
    runVisible,   \* the visible flag of each run mesh, in the order of runMeshes
    sky,          \* the sky group: dome colours, sun, glow, stars
    scene,        \* scene background and fog, the lights, the renderer exposure
    controlsReady \* setupControls() has registered the handlers

liftVars == <<lifts, liftGroups, cabins, generated, delta, frames>>
runVars == <<runs, runRev, runMeshes, runsGenerated, warnings>>

terrainVars == <<terrainMesh, calls>>
treeVars == <<trees, treePositions, treeMeshes, treesGenerated>>
uiVars == <<appState, checked, layers, runVisible, sky, scene, controlsReady>>

vars == <<terrain, seed, liftVars, runVars, terrainVars, treeVars, uiVars>>

----------------------------------------------------------------------------
(* Bounds of the model *)

\* Ordinary frame times are 0..MaxDelta seconds.
MaxDelta == 2
\* One very long frame (a tab left in the background), in seconds.
HugeDelta == 1000
\* Spec follows the animation for MaxFrames frames.
MaxFrames == 3
\* Math.random() streams 0..MaxSeed.
MaxSeed == 2

----------------------------------------------------------------------------
(* Number representation *)

\* 600 is the least scale at which 0.015, 0.005, i/8 and i/12 are whole.
PScale == 600

Abs(n) == IF n < 0 THEN -n ELSE n
Max(a, b) == IF a >= b THEN a ELSE b
Min(a, b) == IF a <= b THEN a ELSE b

\* const r = e; body(r): e is evaluated once, then body on its value.
Const(e, body(_)) == CHOOSE v \in {body(r) : r \in {e}} : TRUE

RECURSIVE Sqrt(_)
\* Math.sqrt, rounded down; exact on the perfect squares the modelled
\* lifts produce.
Sqrt(n) ==
    IF n < 2 THEN n
    ELSE Const(2 * Sqrt(n \div 4),
               LAMBDA r : IF (r + 1) * (r + 1) <= n THEN r + 1 ELSE r)

----------------------------------------------------------------------------
(* THREE.Vector3, exactly *)

Vector3(x, y, z) == [x |-> x, y |-> y, z |-> z, d |-> 1]

RECURSIVE GCD(_, _)
GCD(a, b) == IF b = 0 THEN a ELSE Const(a % b, LAMBDA r : GCD(b, r))

\* (x/d, y/d, z/d) in lowest terms: one record for one point
Lowest(x, y, z, d) ==
    Const(GCD(Abs(x), Abs(y)), LAMBDA gxy :
    Const(GCD(Abs(z), d), LAMBDA gzd :
    Const(GCD(gxy, gzd), LAMBDA g :
        [x |-> x \div g, y |-> y \div g, z |-> z \div g, d |-> d \div g])))

\* body(a, b) on the values of two vectors
OnVectors(u, v, body(_, _)) ==
    CHOOSE w \in {body(a, b) : a \in {u}, b \in {v}} : TRUE

subVectors(u, v) ==
    OnVectors(u, v, LAMBDA a, b :
        Lowest(a.x * b.d - b.x * a.d, a.y * b.d - b.y * a.d,
               a.z * b.d - b.z * a.d, a.d * b.d))

addVectors(u, v) ==
    OnVectors(u, v, LAMBDA a, b :
        Lowest(a.x * b.d + b.x * a.d, a.y * b.d + b.y * a.d,
               a.z * b.d + b.z * a.d, a.d * b.d))

cross(u, v) ==
    OnVectors(u, v, LAMBDA a, b :
        Lowest(a.y * b.z - a.z * b.y, a.z * b.x - a.x * b.z,
               a.x * b.y - a.y * b.x, a.d * b.d))

\* v.multiplyScalar(n / m), m > 0
multiplyScalar(u, n, m) ==
    Const(u, LAMBDA v : Lowest(v.x * n, v.y * n, v.z * n, v.d * m))

\* v.normalize() is v.divideScalar(v.length() || 1)
normalize(u) ==
    Const(u, LAMBDA v :
    Const(Sqrt(v.x * v.x + v.y * v.y + v.z * v.z), LAMBDA len :
        IF len = 0 THEN Vector3(0, 0, 0)
        ELSE Lowest(v.x, v.y, v.z, len)))

\* new Vector3().lerpVectors(a, b, tn / td) = a + (b - a) * t
lerpVectors(a, b, tn, td) ==
    Const(multiplyScalar(subVectors(b, a), tn, td),
          LAMBDA step : addVectors(a, step))

\* v.y += n
addY(u, n) == Const(u, LAMBDA v : Lowest(v.x, v.y + n * v.d, v.z, v.d))

UP == Vector3(0, 1, 0)

\* two vectors denote the same point
SamePoint(a, b) ==
    /\ a.x * b.d = b.x * a.d
    /\ a.y * b.d = b.y * a.d
    /\ a.z * b.d = b.z * a.d

----------------------------------------------------------------------------
(* Terrain: getHeightAt(x, z) >= 0, a pure function of (x, z).            *)
(* The lift code only needs that; the model takes it from a family of      *)
(* piecewise-linear landforms so that heights at the rational tower points *)
(* are exact.                                                              *)

Landform(kind, cx, cz, h) == [kind |-> kind, cx |-> cx, cz |-> cz, h |-> h]
Terrains ==
    { Landform("flat", 0, 0, 0), Landform("flat", 0, 0, 250),
      Landform("ramp", 0, 0, 0),
      Landform("ridge", -100, 300, 250), Landform("valley", -100, 300, 0),
      Landform("ridge", -115, 40, 250), Landform("valley", -115, 40, 0) }

\* getHeightAt(xn / d, zn / d), as a count of 1/d
getHeightAt(t, xn, zn, d) ==
    LET dist == Abs(xn - t.cx * d) + Abs(zn - t.cz * d)
    IN  CASE t.kind = "flat"   -> t.h * d
          [] t.kind = "ramp"   -> Max(0, 600 * d - zn) + t.h * d
          [] t.kind = "ridge"  -> Max(0, t.h * d - dist)
          [] t.kind = "valley" -> dist

----------------------------------------------------------------------------
(* Lift data *)

GONDOLA == "gondola"
QUAD == "quad"
DOUBLE == "double"

NoMid == [x |-> 0, z |-> 0, none |-> TRUE]
Point(x, z) == [x |-> x, z |-> z, none |-> FALSE]

riverRunGondola ==
    [id |-> "riverRunGondola", type |-> GONDOLA, capacity |-> 8,
     base |-> Point(-100, 550), summit |-> Point(-100, 90),
     midStation |-> Point(-100, 300), towerCount |-> 12]

\* A chairlift whose horizontal run is a 3-4-5 triangle, so that
\* normalize() is exact; the configured chairlifts have irrational lengths.
chair345 ==
    [id |-> "chair345", type |-> QUAD, capacity |-> 4,
     base |-> Point(-130, 60), summit |-> Point(-100, 20),
     midStation |-> NoMid, towerCount |-> 6]

\* A lift without a towerCount (undefined): createTowers falls back to 8.
shortDouble ==
    [id |-> "shortDouble", type |-> DOUBLE, capacity |-> 2,
     base |-> Point(-100, 310), summit |-> Point(-100, 290),
     midStation |-> NoMid, towerCount |-> 0]

\* A lift with the least tower count, 2: stations only.
twoTower ==
    [id |-> "twoTower", type |-> DOUBLE, capacity |-> 2,
     base |-> Point(-90, 20), summit |-> Point(-110, 20),
     midStation |-> NoMid, towerCount |-> 2]

LiftTables ==
    { <<riverRunGondola>>, <<chair345>>, <<shortDouble, twoTower>> }

\* A lift whose base and summit are the same point: a zero-length path.
zeroLength ==
    [id |-> "zeroLength", type |-> QUAD, capacity |-> 4,
     base |-> Point(-100, 300), summit |-> Point(-100, 300),
     midStation |-> NoMid, towerCount |-> 6]

\* Lift tables that hold the zero-length lift, alone and after a sound one.
ZeroLengthTables == { <<zeroLength>>, <<twoTower, zeroLength>> }

----------------------------------------------------------------------------
(* LiftRenderer *)

StationLift == 2         \* stations sit 2 above the terrain
MinTowerHeight == 15
CableClearance == 5
DefaultTowerCount == 8
CableOffset == 2         \* createCables: offset of the parallel cables
GondolaCabins == 8
ChairCabins == 12
SpeedBaseMilli == 15     \* 0.015
SpeedSpreadMilli == 5    \* 0.005
TimeFactor == 10         \* updateCabins: delta * 10
CabinOffset == 2         \* updateCabins: up / down cable separation
CabinDrop == 3           \* cabin.position.y += 3

\* Math.random() * 0.005 takes Draws values at the resolution 1/PScale;
\* random(s, k) is the k-th draw of stream s.
Draws == (SpeedSpreadMilli * PScale) \div 1000
random(s, k) == (s + k * (s + 1)) % Draws

\* new THREE.Vector3(p.x, terrain.getHeightAt(p.x, p.z) + 2, p.z)
stationPos(t, p) ==
    Vector3(p.x, getHeightAt(t, p.x, p.z, 1) + StationLift, p.z)

\* terrain.getHeightAt(pos.x, pos.z) as a count of 1/d, d a multiple of pos.d
heightAtPoint(t, pos, d) ==
    getHeightAt(t, pos.x * (d \div pos.d), pos.z * (d \div pos.d), d)

\* A mutant of towerHeightOf: the clearance is left out.
towerHeightNoClearance(cableHeight, terrainHeight, d) ==
    Max(MinTowerHeight * d, cableHeight - terrainHeight)

\* Math.max(15, cableHeight - terrainHeight + 5), heights counted in 1/d
towerHeightOf(cableHeight, terrainHeight, d) ==
    Max(MinTowerHeight * d, cableHeight - terrainHeight + CableClearance * d)

\* One pass of the tower loop body, for index i of towerCount n.
createTower(t, basePos, summitPos, i, n) ==
    Const(lerpVectors(basePos, summitPos, i, n - 1), LAMBDA pos :
    Const(heightAtPoint(t, pos, n - 1), LAMBDA terrainHeight :
    Const(basePos.y * (n - 1) + (summitPos.y - basePos.y) * i, LAMBDA cableHeight :
    Const(towerHeightOf(cableHeight, terrainHeight, n - 1), LAMBDA towerHeight :
        [t |-> [n |-> i, d |-> n - 1],
         pos |-> pos,
         \* the three heights are counts of 1/(n - 1)
         terrainHeight |-> terrainHeight,
         cableHeight |-> cableHeight,
         towerHeight |-> towerHeight,
         \* tower.position.set(pos.x, terrainHeight + towerHeight / 2, pos.z)
         position |-> Lowest(2 * pos.x * ((n - 1) \div pos.d),
                             2 * terrainHeight + towerHeight,
                             2 * pos.z * ((n - 1) \div pos.d), 2 * (n - 1)),
         \* arm.position.set(pos.x, terrainHeight + towerHeight, pos.z)
         arm |-> Lowest(pos.x * ((n - 1) \div pos.d),
                        terrainHeight + towerHeight,
                        pos.z * ((n - 1) \div pos.d), n - 1)]))))

\* const towerCount = lift.towerCount || 8
towerCountOf(lift) ==
    IF lift.towerCount = 0 THEN DefaultTowerCount ELSE lift.towerCount

\* A mutant of towerIndices: the loop also visits the two stations.
towerIndicesWithStations(n) == 0..(n - 1)

\* for (let i = 1; i < towerCount - 1; i++)
towerIndices(n) == 1..(n - 2)

createTowers(t, lift, basePos, summitPos) ==
    LET n == towerCountOf(lift)
    IN  [i \in towerIndices(n) |-> createTower(t, basePos, summitPos, i, n)]

\* (summitPos - basePos) x (0, 1, 0), normalized, times n
perpendicularOf(basePos, summitPos, n) ==
    Const(subVectors(summitPos, basePos), LAMBDA along :
    Const(cross(along, UP), LAMBDA across :
    Const(normalize(across), LAMBDA unit :
        multiplyScalar(unit, n, 1))))

createCables(basePos, summitPos) ==
    Const(perpendicularOf(basePos, summitPos, CableOffset),
          LAMBDA perpendicular :
              [up |-> <<addVectors(basePos, perpendicular),
                        addVectors(summitPos, perpendicular)>>,
               down |-> <<subVectors(basePos, perpendicular),
                          subVectors(summitPos, perpendicular)>>])

\* createCabin: the mesh position at initialT = tn / td
createCabin(basePos, summitPos, tn, td) ==
    Const(lerpVectors(basePos, summitPos, tn, td),
          LAMBDA pos : addY(pos, CabinDrop))

cabinCountOf(lift) == IF lift.type = GONDOLA THEN GondolaCabins ELSE ChairCabins

\* A mutant of initialProgress: spread over both ends, i / (cabinCount - 1).
initialProgressToSummit(i, cabinCount) == (i * PScale) \div (cabinCount - 1)

\* t = i / cabinCount, as a count of 1/PScale
initialProgress(i, cabinCount) == (i * PScale) \div cabinCount

\* A mutant of initialDirection: the alternation starts heading down.
initialDirectionDownFirst(i) == IF i % 2 = 0 THEN -1 ELSE 1

\* i % 2 === 0 ? 1 : -1
initialDirection(i) == IF i % 2 = 0 THEN 1 ELSE -1

\* 0.015 + Math.random() * 0.005, as a count of 1/PScale
cabinSpeed(s, k) == (SpeedBaseMilli * PScale) \div 1000 + random(s, k)

\* The cabin loop of createLift; k0 random draws were made before it.
createCabins(lift, basePos, summitPos, s, k0) ==
    LET cabinCount == cabinCountOf(lift)
    IN  [j \in 1..cabinCount |->
            LET i == j - 1
            IN  [mesh |-> createCabin(basePos, summitPos, i, cabinCount),
                 facing |-> "origin",
                 basePos |-> basePos,
                 summitPos |-> summitPos,
                 progress |-> initialProgress(i, cabinCount),
                 speed |-> cabinSpeed(s, k0 + i),
                 direction |-> initialDirection(i),
                 liftType |-> lift.type,
                 liftId |-> lift.id,
                 index |-> i]]

\* pathPoints, which createLift builds and nothing reads
pathPointsOf(t, lift, basePos, summitPos) ==
    IF ~lift.midStation.none
    THEN <<basePos, stationPos(t, lift.midStation), summitPos>>
    ELSE <<basePos, summitPos>>

\* createLift(lift): the group it returns; the cabins it pushes are
\* createCabins of the same base and summit.
createLift(t, lift) ==
    Const(stationPos(t, lift.base), LAMBDA basePos :
    Const(stationPos(t, lift.summit), LAMBDA summitPos :
        [id |-> lift.id,
         liftType |-> lift.type,
         basePos |-> basePos,
         summitPos |-> summitPos,
         pathPoints |-> pathPointsOf(t, lift, basePos, summitPos),
         towers |-> createTowers(t, lift, basePos, summitPos),
         cables |-> createCables(basePos, summitPos),
         stations |-> <<basePos, summitPos>>]))

RECURSIVE cabinsOfLifts(_, _, _, _)
\* this.cabins after createLift ran for ls[1..n], in order
cabinsOfLifts(t, ls, s, n) ==
    IF n = 0 THEN <<>>
    ELSE Const(cabinsOfLifts(t, ls, s, n - 1), LAMBDA before :
         Const(createLift(t, ls[n]), LAMBDA g :
             before \o createCabins(ls[n], g.basePos, g.summitPos, s, Len(before))))

----------------------------------------------------------------------------
(* updateCabins, one cabin *)

\* A mutant of increment: the direction is left out.
incrementUphill(cabin, dt) == cabin.speed * dt * TimeFactor

\* cabin.speed * cabin.direction * delta * 10
increment(cabin, dt) == cabin.speed * cabin.direction * dt * TimeFactor

\* cabin.progress += ...
advanced(cabin, dt) == cabin.progress + increment(cabin, dt)

\* A mutant of bounce: the lower end is not clamped.
bounceTopOnly(cabin, p) ==
    IF p >= PScale THEN [cabin EXCEPT !.progress = PScale, !.direction = -1]
    ELSE [cabin EXCEPT !.progress = p]

\* A mutant of bounce: a cabin that reaches an end restarts from the other.
bounceWrap(cabin, p) ==
    IF p >= PScale THEN [cabin EXCEPT !.progress = 0]
    ELSE IF p <= 0 THEN [cabin EXCEPT !.progress = PScale]
    ELSE [cabin EXCEPT !.progress = p]

\* A mutant of bounce: the cabin is clamped at the summit but not turned.
bounceStick(cabin, p) ==
    IF p >= PScale THEN [cabin EXCEPT !.progress = PScale]
    ELSE IF p <= 0 THEN [cabin EXCEPT !.progress = 0, !.direction = 1]
    ELSE [cabin EXCEPT !.progress = p]

\* Bounce at endpoints
bounce(cabin, p) ==
    IF p >= PScale THEN [cabin EXCEPT !.progress = PScale, !.direction = -1]
    ELSE IF p <= 0 THEN [cabin EXCEPT !.progress = 0, !.direction = 1]
    ELSE [cabin EXCEPT !.progress = p]

\* A mutant of cabinPosition: every cabin hangs on the up cable.
cabinPositionUpCable(cabin) ==
    Const(lerpVectors(cabin.basePos, cabin.summitPos, cabin.progress, PScale),
          LAMBDA pos :
    Const(perpendicularOf(cabin.basePos, cabin.summitPos, CabinOffset),
          LAMBDA perpendicular :
    Const(addVectors(pos, perpendicular),
          LAMBDA moved : addY(moved, CabinDrop))))

\* Calculate position along cable, offset by direction, y += 3
cabinPosition(cabin) ==
    Const(lerpVectors(cabin.basePos, cabin.summitPos, cabin.progress, PScale),
          LAMBDA pos :
    Const(perpendicularOf(cabin.basePos, cabin.summitPos,
                          cabin.direction * CabinOffset),
          LAMBDA perpendicular :
    Const(addVectors(pos, perpendicular),
          LAMBDA moved : addY(moved, CabinDrop))))

\* The loop body of updateCabins.
updateCabin(cabin, dt) ==
    Const(bounce(cabin, advanced(cabin, dt)),
          LAMBDA c :
              [c EXCEPT !.mesh = cabinPosition(c),
                        !.facing = IF c.direction > 0 THEN "summit" ELSE "base"])

----------------------------------------------------------------------------
(* Run data *)

GREEN == "green"
BLUE == "blue"
BLACK == "black"
DIFFICULTY_DOUBLE == "double"

Run(id, difficulty, points) ==
    [id |-> id, name |-> id, difficulty |-> difficulty, points |-> points]

\* Runs whose control points are evenly spaced along a straight line whose
\* horizontal length is rational: on them the curve three.js fits, and the
\* ribbon built on it, are exact in rationals.
straightDouble ==
    Run("straightDouble", DIFFICULTY_DOUBLE,
        <<Point(0, 0), Point(0, 50), Point(0, 100)>>)
greenDiagonal ==
    Run("greenDiagonal", GREEN, <<Point(0, 0), Point(30, 40), Point(60, 80)>>)
doubleDiagonal ==
    Run("doubleDiagonal", DIFFICULTY_DOUBLE,
        <<Point(20, 10), Point(-10, 50), Point(-40, 90)>>)
blueAcross == Run("blueAcross", BLUE, <<Point(-50, 20), Point(50, 20)>>)
blackFour ==
    Run("blackFour", BLACK,
        <<Point(0, 0), Point(-20, 0), Point(-40, 0), Point(-60, 0)>>)
\* a difficulty the switch of getRunWidth does not list
unrated == Run("unrated", "expert", <<Point(0, 0), Point(0, 10), Point(0, 20)>>)
\* runs with fewer than 2 control points
singlePoint == Run("singlePoint", BLUE, <<Point(0, 0)>>)
noPoints == Run("noPoints", GREEN, <<>>)

RunSet ==
    { straightDouble, greenDiagonal, doubleDiagonal, blueAcross, blackFour,
      unrated, singlePoint, noPoints }

\* getAllRuns(): one run, or two different runs in either order
RunTables ==
    { <<r>> : r \in RunSet }
        \cup { <<pair[1], pair[2]>> :
                 pair \in {q \in RunSet \X RunSet : q[1] # q[2]} }

\* Terrains on which evenly spaced control points stay evenly spaced in 3D.
RunTerrains ==
    { Landform("flat", 0, 0, 5), Landform("flat", 0, 0, 250),
      Landform("ramp", 0, 0, 0) }

----------------------------------------------------------------------------
(* THREE.CatmullRomCurve3(points, false, 'centripetal', 0.5) *)

TangentDelta == 10000      \* Curve.getTangent: delta = 0.0001

\* Math.pow(distanceToSquared, 0.25), rounded down, in the unit the points
\* of one curve share (they have one denominator); only ratios are used.
knotStep(a, b) ==
    Const((b.x * a.d - a.x * b.d) * (b.x * a.d - a.x * b.d)
          + (b.y * a.d - a.y * b.d) * (b.y * a.d - a.y * b.d)
          + (b.z * a.d - a.z * b.d) * (b.z * a.d - a.z * b.d),
          LAMBDA distSq : Sqrt(Sqrt(distSq)))

\* CubicPoly.initNonuniformCatmullRom and calc, on the three coordinates
\* at once: the point at weight wn / wd of the span p1 -> p2.
nonuniformCatmullRom(p0, p1, p2, p3, wn, wd) ==
    Const(knotStep(p1, p2), LAMBDA step1 :
    Const(IF step1 = 0 THEN 1 ELSE step1, LAMBDA dt1 :
    Const(knotStep(p0, p1), LAMBDA step0 :
    Const(IF step0 = 0 THEN dt1 ELSE step0, LAMBDA dt0 :
    Const(knotStep(p2, p3), LAMBDA step2 :
    Const(IF step2 = 0 THEN dt1 ELSE step2, LAMBDA dt2 :
    Const(addVectors(
              subVectors(multiplyScalar(subVectors(p1, p0), dt1, dt0),
                         multiplyScalar(subVectors(p2, p0), dt1, dt0 + dt1)),
              subVectors(p2, p1)), LAMBDA t1 :
    Const(addVectors(
              subVectors(subVectors(p2, p1),
                         multiplyScalar(subVectors(p3, p1), dt1, dt1 + dt2)),
              multiplyScalar(subVectors(p3, p2), dt1, dt2)), LAMBDA t2 :
    \* c0 = x1, c1 = t1, c2 = -3 x1 + 3 x2 - 2 t1 - t2, c3 = 2 x1 - 2 x2 + t1 + t2
    Const(subVectors(multiplyScalar(subVectors(p2, p1), 3, 1),
                     addVectors(multiplyScalar(t1, 2, 1), t2)), LAMBDA c2 :
    Const(addVectors(multiplyScalar(subVectors(p1, p2), 2, 1),
                     addVectors(t1, t2)), LAMBDA c3 :
    \* c0 + c1 w + c2 w^2 + c3 w^3
    Const(addVectors(c2, multiplyScalar(c3, wn, wd)), LAMBDA h2 :
    Const(addVectors(t1, multiplyScalar(h2, wn, wd)), LAMBDA h1 :
        addVectors(p1, multiplyScalar(h1, wn, wd))))))))))))))

\* CatmullRomCurve3.getPoint(tn / td) of the open curve through pts
getPoint(pts, tn, td) ==
    Const(Len(pts), LAMBDA l :
    Const(IF ((l - 1) * tn) % td = 0 /\ ((l - 1) * tn) \div td = l - 1
          THEN [intPoint |-> l - 2, wn |-> 1, wd |-> 1]
          ELSE [intPoint |-> ((l - 1) * tn) \div td,
                wn |-> ((l - 1) * tn) % td, wd |-> td], LAMBDA at :
    Const(IF at.intPoint > 0 THEN pts[at.intPoint]
          ELSE addVectors(subVectors(pts[1], pts[2]), pts[1]), LAMBDA p0 :
    Const(IF at.intPoint + 2 < l THEN pts[at.intPoint + 3]
          ELSE addVectors(subVectors(pts[l], pts[l - 1]), pts[l]), LAMBDA p3 :
        nonuniformCatmullRom(p0, pts[at.intPoint + 1], pts[at.intPoint + 2],
                             p3, at.wn, at.wd)))))

\* Curve.getPoints(divisions): divisions + 1 points at t = d / divisions
getPoints(pts, divisions) ==
    [k \in 1..(divisions + 1) |-> getPoint(pts, k - 1, divisions)]

\* Curve.getTangentAt(un / ud): getTangent at the arc-length parameter,
\* which on the constant-speed curves of the modelled runs is un / ud
\* itself; ud divides TangentDelta.
getTangentAt(pts, un, ud) ==
    Const(un * (TangentDelta \div ud), LAMBDA tn :
    Const(getPoint(pts, Max(0, tn - 1), TangentDelta), LAMBDA pt1 :
    Const(getPoint(pts, IF tn + 1 > TangentDelta THEN TangentDelta ELSE tn + 1,
                   TangentDelta), LAMBDA pt2 :
        normalize(subVectors(pt2, pt1)))))

----------------------------------------------------------------------------
(* RunRenderer: the ribbon revision (src/runs/RunRenderer.js) and the tube *)
(* revision before it.  Widths are counts of 1/WidthScale.                 *)

WidthScale == 2
RibbonSegments == 50       \* createRibbonGeometry(curve, width, 50)
RibbonPathLiftTenths == 3  \* ribbon: control points 0.3 above the terrain
TubePathLiftTenths == 5    \* tube: control points 0.5 above the terrain
MinTubeSegments == 20
TubeSegmentsPerPoint == 8
MarkerLift == 8            \* ribbon: marker 8 above the top point
LabelLift == 10            \* tube: label 10 above the top point
RunRevisions == {"ribbon", "tube"}

\* A mutant of getRunWidth: expert runs are drawn widest.
getRunWidthReversed(rev, difficulty) ==
    IF rev = "ribbon"
    THEN CASE difficulty = GREEN -> 10 * WidthScale
           [] difficulty = BLUE -> 12 * WidthScale
           [] difficulty = BLACK -> 16 * WidthScale
           [] difficulty = DIFFICULTY_DOUBLE -> 20 * WidthScale
           [] OTHER -> 14 * WidthScale
    ELSE CASE difficulty = GREEN -> 5
           [] difficulty = BLUE -> 6
           [] difficulty = BLACK -> 7
           [] difficulty = DIFFICULTY_DOUBLE -> 8
           [] OTHER -> 6

\* getRunWidth(difficulty): 20, 16, 12, 10, default 14 in the ribbon
\* revision; 4, 3.5, 3, 2.5, default 3 in the tube revision
getRunWidth(rev, difficulty) ==
    IF rev = "ribbon"
    THEN CASE difficulty = GREEN -> 20 * WidthScale
           [] difficulty = BLUE -> 16 * WidthScale
           [] difficulty = BLACK -> 12 * WidthScale
           [] difficulty = DIFFICULTY_DOUBLE -> 10 * WidthScale
           [] OTHER -> 14 * WidthScale
    ELSE CASE difficulty = GREEN -> 8
           [] difficulty = BLUE -> 7
           [] difficulty = BLACK -> 6
           [] difficulty = DIFFICULTY_DOUBLE -> 5
           [] OTHER -> 6

\* run.points.map(p => new Vector3(p.x, getHeightAt(p.x, p.z) + lift, p.z))
points3D(t, rev, run) ==
    LET tenths == IF rev = "ribbon" THEN RibbonPathLiftTenths
                  ELSE TubePathLiftTenths
    IN  [k \in DOMAIN run.points |->
            Lowest(10 * run.points[k].x,
                   10 * getHeightAt(t, run.points[k].x, run.points[k].z, 1)
                       + tenths,
                   10 * run.points[k].z, 10)]

\* A mutant of edgeVertex: the edge takes the height of the centreline
\* sample it was set off from (pos.y), not the terrain's under itself.
edgeVertexAtSampleHeight(t, pos) ==
    Const(pos, LAMBDA e : Lowest(2 * e.x, 2 * e.y + e.d, 2 * e.z, 2 * e.d))

\* new Vector3(x, getHeightAt(x, z) + 0.5, z) at the x and z of pos
edgeVertex(t, pos) ==
    Const(pos, LAMBDA e :
    Const(heightAtPoint(t, e, e.d), LAMBDA h :
        Lowest(2 * e.x, 2 * h + e.d, 2 * e.z, 2 * e.d)))

\* A mutant of ribbonSample: the edges are set off by the whole width.
ribbonSampleFullWidth(t, pts, p, width, i, n) ==
    Const(getTangentAt(pts, i, n), LAMBDA tangent :
    Const(normalize(cross(tangent, UP)), LAMBDA perp :
    Const(multiplyScalar(perp, width, WidthScale), LAMBDA off :
        [p |-> p, t |-> [n |-> i, d |-> n],
         left |-> edgeVertex(t, subVectors(p, off)),
         right |-> edgeVertex(t, addVectors(p, off))])))

\* One pass of the vertex loop of createRibbonGeometry, for sample i of n + 1.
ribbonSample(t, pts, p, width, i, n) ==
    Const(getTangentAt(pts, i, n), LAMBDA tangent :
    Const(normalize(cross(tangent, UP)), LAMBDA perp :
    \* halfWidth = width / 2
    Const(multiplyScalar(perp, width, 2 * WidthScale), LAMBDA off :
        [p |-> p, t |-> [n |-> i, d |-> n],
         left |-> edgeVertex(t, subVectors(p, off)),
         right |-> edgeVertex(t, addVectors(p, off))])))

\* createRibbonGeometry(curve, width, segments): the vertex rows
createRibbonGeometry(t, pts, width, segments) ==
    Const(getPoints(pts, segments), LAMBDA points :
        [k \in DOMAIN points |->
            ribbonSample(t, pts, points[k], width, k - 1, Len(points) - 1)])

\* vertices.push(left.x, left.y, left.z); vertices.push(right.x, right.y,
\* right.z), for every sample: vertex i of the geometry is vertices[i + 1]
ribbonVertices(rows) ==
    [i \in 1..(2 * Len(rows)) |->
        IF i % 2 = 1 THEN rows[(i + 1) \div 2].left ELSE rows[i \div 2].right]

\* A mutant of ribbonIndices: the triangle loop runs to the last sample.
ribbonIndicesToLastSample(n) ==
    [j \in 1..(2 * n) |->
        LET v0 == ((j - 1) \div 2) * 2
        IN  IF j % 2 = 1 THEN <<v0, v0 + 2, v0 + 1>>
            ELSE <<v0 + 1, v0 + 2, v0 + 3>>]

\* for (i = 0; i < points.length - 1; i++): indices.push(v0, v2, v1);
\* indices.push(v1, v2, v3), for n = points.length; one triple a triangle
ribbonIndices(n) ==
    [j \in 1..(2 * (n - 1)) |->
        LET v0 == ((j - 1) \div 2) * 2
        IN  IF j % 2 = 1 THEN <<v0, v0 + 2, v0 + 1>>
            ELSE <<v0 + 1, v0 + 2, v0 + 3>>]

\* !run.points || run.points.length < 2
tooFewPoints(run) == Len(run.points) < 2

\* createRunMesh(run), for a run it does not turn away
createRunMesh(t, rev, run) ==
    Const(points3D(t, rev, run), LAMBDA pts :
    Const(getRunWidth(rev, run.difficulty), LAMBDA width :
    Const(IF rev = "ribbon"
          THEN createRibbonGeometry(t, pts, width, RibbonSegments)
          ELSE <<>>, LAMBDA rows :
        [id |-> run.id, name |-> run.name, difficulty |-> run.difficulty,
         rev |-> rev, width |-> width,
         segments |-> IF rev = "ribbon" THEN RibbonSegments
                      ELSE Max(MinTubeSegments,
                               Len(run.points) * TubeSegmentsPerPoint),
         geometry |-> rows,
         vertices |-> ribbonVertices(rows),
         indices |-> IF rev = "ribbon" THEN ribbonIndices(Len(rows))
                     ELSE <<>>,
         top |-> pts[1],
         marker |-> addY(pts[1], IF rev = "ribbon" THEN MarkerLift
                                 ELSE LabelLift)])))

RECURSIVE meshesOfRuns(_, _, _, _)
\* this.runMeshes after the loop of generate() ran for rs[1..n]: a run
\* for which createRunMesh returns null is passed over
meshesOfRuns(t, rev, rs, n) ==
    IF n = 0 THEN <<>>
    ELSE Const(meshesOfRuns(t, rev, rs, n - 1), LAMBDA before :
             IF tooFewPoints(rs[n]) THEN before
             ELSE Append(before, createRunMesh(t, rev, rs[n])))

RECURSIVE warningsOfRuns(_, _, _)
\* console.warn(`Run ${run.name} has insufficient points`): tube revision only
warningsOfRuns(rev, rs, n) ==
    IF n = 0 THEN <<>>
    ELSE IF tooFewPoints(rs[n]) /\ rev = "tube"
         THEN Append(warningsOfRuns(rev, rs, n - 1), rs[n].name)
         ELSE warningsOfRuns(rev, rs, n - 1)

----------------------------------------------------------------------------
(* Fixed point for the terrain.  Math.exp, Math.sin and Math.cos have no    *)
(* exact rational values, so the terrain is computed in fixed point:        *)
(*   - a coordinate is a count of 1/Centi world units;                      *)
(*   - a height, a falloff, a sine is a count of 1/Unit;                    *)
(*   - an angle is a count of 1/Micro radians.                              *)
(* Every result is within a few counts of the double the source computes.   *)

Centi == 100
Unit == 10000
Micro == 1000000

MaxInt == 2147483647

RECURSIVE mulDivQR(_, _, _)
\* <<q, r>> with a * b = q * c + r and 0 <= r < c, for a, b >= 0 < c,
\* without forming a product that does not fit a machine integer
mulDivQR(a, b, c) ==
    IF b = 0 \/ a <= MaxInt \div b THEN <<(a * b) \div c, (a * b) % c>>
    ELSE Const(mulDivQR(a, b \div 2, c), LAMBDA h :
         Const(IF b % 2 = 1 THEN a ELSE 0, LAMBDA odd :
         Const(2 * h[2] + (odd % c), LAMBDA r :
             <<2 * h[1] + (odd \div c) + (r \div c), r % c>>)))

\* a * b / c, rounded towards 0
mulDiv(a, b, c) ==
    Const(mulDivQR(Max(Abs(a), Abs(b)), Min(Abs(a), Abs(b)), c)[1],
          LAMBDA q : IF (a < 0) # (b < 0) THEN -q ELSE q)

\* the product of two counts of 1/Unit
times(a, b) == mulDiv(a, b, Unit)

\* Math.max(0, Math.min(1, v)) on a count of 1/scale
clamp01(v, scale) == IF v < 0 THEN 0 ELSE IF v > scale THEN scale ELSE v

PiMicro == 3141593
TwoPiMicro == 6283185

\* sin r for -pi/2 <= r <= pi/2, r a count of 1/Unit: the Taylor series
\* to r^9, by Horner's rule
sinSeries(r) ==
    Const((r * r) \div Unit, LAMBDA r2 :
    Const(Unit - r2 \div 72, LAMBDA v4 :
    Const(Unit - (r2 * v4) \div (42 * Unit), LAMBDA v3 :
    Const(Unit - (r2 * v3) \div (20 * Unit), LAMBDA v2 :
    Const(Unit - (r2 * v2) \div (6 * Unit), LAMBDA v1 :
        mulDiv(r, v1, Unit))))))

\* Math.sin(a), a a count of 1/Micro radians
sin(a) ==
    Const((a % TwoPiMicro) \div (Micro \div Unit), LAMBDA r :
        IF r <= 15708 THEN sinSeries(r)
        ELSE IF r <= 47124 THEN sinSeries(31416 - r)
        ELSE sinSeries(r - 62832))

\* Math.cos(a)
cos(a) == sin(a + PiMicro \div 2)

\* e^0 .. e^-9 as counts of 1/Unit
expTable == <<10000, 3679, 1353, 498, 183, 67, 25, 9, 3, 1>>

\* e^-f for 0 <= f < 1, f a count of 1/Unit: the Taylor series to f^8
expSeries(f) ==
    Const(Unit - f \div 8, LAMBDA v7 :
    Const(Unit - (f * v7) \div (7 * Unit), LAMBDA v6 :
    Const(Unit - (f * v6) \div (6 * Unit), LAMBDA v5 :
    Const(Unit - (f * v5) \div (5 * Unit), LAMBDA v4 :
    Const(Unit - (f * v4) \div (4 * Unit), LAMBDA v3 :
    Const(Unit - (f * v3) \div (3 * Unit), LAMBDA v2 :
    Const(Unit - (f * v2) \div (2 * Unit), LAMBDA v1 :
        Unit - (f * v1) \div Unit)))))))

\* Math.exp(-q), q >= 0 a count of 1/Unit; below e^-10 the result rounds
\* to 0 counts
expNeg(q) ==
    IF q \div Unit >= Len(expTable) THEN 0
    ELSE (expTable[(q \div Unit) + 1] * expSeries(q % Unit)) \div Unit

\* Math.exp(-(dx * dx + dz * dz) / (tenths / 10 * radius * radius)) for
\* dx, dz counts of 1/Centi and a radius in world units
gaussian(dx, dz, tenths, radius) ==
    Const((tenths * radius * radius) \div 10, LAMBDA den :
        expNeg(mulDiv(dx, dx, den) + mulDiv(dz, dz, den)))

\* dist < reach, for dist = Math.sqrt(dx * dx + dz * dz), dx, dz and reach
\* counts of the same unit: decided on the squares
within(dx, dz, reach) ==
    /\ Abs(dx) < reach
    /\ Abs(dz) < reach
    /\ dx * dx + dz * dz < reach * reach

----------------------------------------------------------------------------
(* TerrainGenerator: the three revisions in the repository.                 *)
(*   "A"  src/unnamed/part_004, first class: 7 peaks, 5 ridges, 5 bowls     *)
(*   "B"  src/unnamed/part_004, second class: plateaus on normalised axes   *)
(*   "C"  src/unnamed/part_005: 3 peaks, 3 ridges, 5 bowls                  *)
(* A generator g is the object with its fields; g.heightmap is <<>> for     *)
(* the null the constructor leaves.  Query points (x, z) are counts of      *)
(* 1/Centi, heights are counts of 1/Unit.                                   *)

Peak(x, z, height, radius) ==
    [x |-> x, z |-> z, height |-> height, radius |-> radius]
Bowl(x, z, depth, radius) ==
    [x |-> x, z |-> z, depth |-> depth, radius |-> radius]

\* The heightmap of the model has (MapSegments + 1)^2 vertices; the
\* source's have 401^2, 301^2 and 257^2.
MapSegments == 2

\* new TerrainGenerator()
TerrainGenerator(rev) ==
    CASE rev = "A" ->
           [rev |-> "A", width |-> 2000, depth |-> 1600,
            baseElevation |-> 0,
            peaks |-> << Peak(-50, 50, 280, 180), Peak(-150, 150, 240, 120),
                         Peak(80, -150, 350, 160), Peak(0, -80, 300, 140),
                         Peak(350, -280, 320, 200), Peak(250, -180, 280, 150),
                         Peak(-400, -100, 260, 180) >>,
            bowls |-> << Bowl(-380, -50, 100, 140), Bowl(-20, -350, 90, 120),
                         Bowl(80, -380, 80, 110), Bowl(300, -400, 95, 130),
                         Bowl(420, -350, 85, 120) >>,
            heightmap |-> <<>>]
      [] rev = "B" ->
           [rev |-> "B", width |-> 2400, depth |-> 2000,
            baseElevation |-> 0, peaks |-> <<>>, bowls |-> <<>>,
            heightmap |-> <<>>]
      [] rev = "C" ->
           [rev |-> "C", width |-> 1600, depth |-> 1200,
            baseElevation |-> 0,
            peaks |-> << Peak(-100, 100, 280, 200), Peak(100, -100, 313, 180),
                         Peak(350, -200, 290, 220) >>,
            bowls |-> << Bowl(-350, -100, 80, 120), Bowl(-50, -280, 70, 100),
                         Bowl(50, -320, 60, 90), Bowl(280, -350, 75, 110),
                         Bowl(380, -280, 65, 100) >>,
            heightmap |-> <<>>]

Revisions == {"A", "B", "C"}

\* The literals in which calculateHeight of revision A and of revision C
\* differ: exp(-dist^2 / (1.8 r^2)) against (2 r^2); dist < radius * 1.8
\* against * 1.5; depth * falloff * 0.7 against * 0.6; ridge * 0.35
\* against * 0.4
peakSpreadTenths(g) == IF g.rev = "A" THEN 18 ELSE 20
bowlReachTenths(g) == IF g.rev = "A" THEN 18 ELSE 15
bowlFactorTenths(g) == IF g.rev = "A" THEN 7 ELSE 6
ridgeFactorPercent(g) == IF g.rev = "A" THEN 35 ELSE 40

RECURSIVE peaksHeight(_, _, _, _)
\* for (const peak of Object.values(this.peaks)) height += ..., over the
\* first n peaks
peaksHeight(g, x, z, n) ==
    IF n = 0 THEN 0
    ELSE Const(peaksHeight(g, x, z, n - 1), LAMBDA before :
         Const(g.peaks[n], LAMBDA peak :
             before + peak.height *
                 gaussian(x - peak.x * Centi, z - peak.z * Centi,
                          peakSpreadTenths(g), peak.radius)))

\* what one bowl takes off the height: nothing from its cutoff radius on
bowlDepth(g, bowl, x, z) ==
    IF within(x - bowl.x * Centi, z - bowl.z * Centi,
              (bowl.radius * bowlReachTenths(g) * Centi) \div 10)
    THEN mulDiv(bowl.depth * gaussian(x - bowl.x * Centi, z - bowl.z * Centi,
                                      20, bowl.radius),
                bowlFactorTenths(g), 10)
    ELSE 0

RECURSIVE bowlsDepth(_, _, _, _)
\* for (const bowl of Object.values(this.bowls)) height -= ..., over the
\* first n bowls
bowlsDepth(g, x, z, n) ==
    IF n = 0 THEN 0
    ELSE Const(bowlsDepth(g, x, z, n - 1), LAMBDA before :
             before + bowlDepth(g, g.bowls[n], x, z))

\* ridgeLine(x, z, x1, z1, x2, z2, height, width)
ridgeLine(g, x, z, x1, z1, x2, z2, height, width) ==
    Const(x2 - x1, LAMBDA dx :
    Const(z2 - z1, LAMBDA dz :
    Const(dx * dx + dz * dz, LAMBDA lengthSq :
        IF lengthSq = 0 THEN 0
        ELSE
        Const(clamp01(mulDiv((x - x1 * Centi) * dx + (z - z1 * Centi) * dz,
                             Micro, Centi * lengthSq), Micro), LAMBDA t :
        Const(x1 * Centi + mulDiv(t, dx * Centi, Micro), LAMBDA projX :
        Const(z1 * Centi + mulDiv(t, dz * Centi, Micro), LAMBDA projZ :
        Const(gaussian(x - projX, z - projZ, 20, width), LAMBDA falloff :
        Const(sin(mulDiv(t, PiMicro, Micro)), LAMBDA endFalloff :
            mulDiv(times(height * falloff, endFalloff),
                   ridgeFactorPercent(g), 100)))))))))

\* calculateRidges(x, z)
calculateRidges(g, x, z) ==
    IF g.rev = "A"
    THEN ridgeLine(g, x, z, -50, 50, 80, -150, 280, 60)
         + ridgeLine(g, x, z, 80, -150, 350, -280, 260, 50)
         + ridgeLine(g, x, z, -150, 150, -400, -100, 220, 55)
         + ridgeLine(g, x, z, 0, -80, 250, -180, 240, 45)
         + ridgeLine(g, x, z, -20, -350, 80, -380, 180, 40)
    ELSE ridgeLine(g, x, z, g.peaks[1].x, g.peaks[1].z,
                   g.peaks[2].x, g.peaks[2].z, 200, 40)
         + ridgeLine(g, x, z, g.peaks[2].x, g.peaks[2].z,
                     g.peaks[3].x, g.peaks[3].z, 180, 35)
         + ridgeLine(g, x, z, g.peaks[1].x, g.peaks[1].z, -300, 0, 150, 30)

\* Math.sin(x * f + px) * Math.cos(z * f + pz) * amplitude, for f a count
\* of 1/1000, px and pz of 1/10 and the amplitude of 1/100
octave(x, z, f, px, pz, amplitude) ==
    mulDiv(times(sin(x * f * 10 + px * (Micro \div 10)),
                 cos(z * f * 10 + pz * (Micro \div 10))), amplitude, 100)

\* revision A: detailedNoise(x, z)
detailedNoise(x, z) ==
    octave(x, z, 8, 13, 7, 1200) + octave(x, z, 20, 21, 14, 600)
    + octave(x, z, 50, 5, 28, 300) + octave(x, z, 120, 32, 3, 150)

\* revision B: terrainNoise(x, z)
terrainNoise(x, z) ==
    octave(x, z, 6, 13, 7, 800) + octave(x, z, 15, 21, 14, 400)
    + octave(x, z, 40, 5, 28, 200)

\* revision C: noise(x, z)
noise(x, z) ==
    octave(x, z, 10, 13, 7, 100) + octave(x, z, 30, 21, 14, 50)
    + octave(x, z, 80, 5, 28, 25)

\* the noise added by calculateHeight
noiseHeight(g, x, z) ==
    CASE g.rev = "A" -> detailedNoise(x, z)
      [] g.rev = "B" -> terrainNoise(x, z)
      [] g.rev = "C" -> noise(x, z) * 15

\* one factor of calculateEdgeFalloff: 1 + t * slope / 10 for
\* t = (v - edge) / margin, v a count of 1/Centi
edgeFactor(v, edge, margin, slopeTenths) ==
    Unit + mulDiv(mulDiv(v - edge * Centi, Unit, margin * Centi),
                  slopeTenths, 10)

\* calculateEdgeFalloff(x, z): revision A lowers the back edge and the
\* sides, revision C the front edge and the sides
calculateEdgeFalloff(g, x, z) ==
    Const(g.width \div 2, LAMBDA halfWidth :
    Const(g.depth \div 2, LAMBDA halfDepth :
    Const(IF g.rev = "A" THEN 150 ELSE 100, LAMBDA margin :
    Const(IF g.rev = "A"
          THEN IF z < (-halfDepth + margin * 2) * Centi
               THEN edgeFactor(z, -halfDepth + margin * 2, margin * 2, 3)
               ELSE Unit
          ELSE IF z > (halfDepth - margin) * Centi
               THEN edgeFactor(z, halfDepth - margin, margin, -7)
               ELSE Unit, LAMBDA ends :
    Const(IF Abs(x) > (halfWidth - margin) * Centi
          THEN edgeFactor(Abs(x), halfWidth - margin, margin,
                          IF g.rev = "A" THEN -6 ELSE -5)
          ELSE Unit, LAMBDA sides :
        Max(IF g.rev = "A" THEN Unit \div 20 ELSE Unit \div 10,
            times(ends, sides)))))))

\* revision A: "Ensure base area is flat for village"
flattenVillage(g, z, height) ==
    IF g.rev = "A" /\ z > 600 * Centi
    THEN Const(IF z - 600 * Centi > 150 * Centi THEN Unit
               ELSE mulDiv(z - 600 * Centi, Unit, 150 * Centi),
               LAMBDA flattenAmount :
                   times(height, Unit - flattenAmount) + 10 * flattenAmount)
    ELSE height

\* revisions A and C: the base elevation, the peaks and ridges added to it
\* and the bowls carved from it
landforms(g, x, z) ==
    g.baseElevation * Unit + peaksHeight(g, x, z, Len(g.peaks))
    + calculateRidges(g, x, z) - bowlsDepth(g, x, z, Len(g.bowls))

\* A mutant of peaksTerrain: the village is flattened before the edges are
\* lowered.
peaksTerrainFlattenedFirst(g, x, z) ==
    Const(landforms(g, x, z) + noiseHeight(g, x, z), LAMBDA height :
        times(flattenVillage(g, z, height), calculateEdgeFalloff(g, x, z)))

\* revisions A and C: calculateHeight(x, z) before the final Math.max
peaksTerrain(g, x, z) ==
    Const(landforms(g, x, z) + noiseHeight(g, x, z), LAMBDA height :
        flattenVillage(g, z, times(height, calculateEdgeFalloff(g, x, z))))

\* Revision B works on normalised axes: nx, nz and the distances are
\* counts of 1/Micro, the literal centres, radii and widths of 1/100.

\* Math.sqrt(dx * dx + dz * dz) as a count of 1/Unit, for dx, dz counts
\* of 1/Micro no larger than reach; beyond reach the code returns 0
\* whatever the distance is, and the model says -1
distance(dx, dz, reach) ==
    IF Abs(dx) > reach \/ Abs(dz) > reach THEN -1
    ELSE Const(mulDiv(dx, Unit, Micro), LAMBDA a :
         Const(mulDiv(dz, Unit, Micro), LAMBDA b :
             Sqrt(a * a + b * b)))

\* broadPlateau(x, z, cx, cz, radiusX, radiusZ, height)
broadPlateau(x, z, cx, cz, radiusX, radiusZ, height) ==
    Const(mulDiv(x - cx * Unit, 100, radiusX), LAMBDA dx :
    Const(mulDiv(z - cz * Unit, 100, radiusZ), LAMBDA dz :
    Const(distance(dx, dz, 2 * Micro), LAMBDA dist :
        IF dist < 0 \/ dist > (15 * Unit) \div 10 THEN 0
        ELSE IF dist < (3 * Unit) \div 10 THEN height * Unit
        ELSE Const(mulDiv(dist - (3 * Unit) \div 10, 10, 12), LAMBDA t :
             Const(cos(mulDiv(t, PiMicro \div 2, Unit)), LAMBDA c :
                 height * times(c, c))))))

\* wideRidge(x, z, x1, z1, x2, z2, height, width)
wideRidge(x, z, x1, z1, x2, z2, height, width) ==
    Const(x2 - x1, LAMBDA dx :
    Const(z2 - z1, LAMBDA dz :
    Const(dx * dx + dz * dz, LAMBDA lengthSq :
        IF lengthSq = 0 THEN 0
        ELSE
        Const(clamp01(mulDiv((x - x1 * Unit) * dx + (z - z1 * Unit) * dz,
                             100, lengthSq), Micro), LAMBDA t :
        Const(x1 * Unit + mulDiv(t, dx, 100), LAMBDA projX :
        Const(z1 * Unit + mulDiv(t, dz, 100), LAMBDA projZ :
        Const(distance(x - projX, z - projZ, 2 * width * Unit),
              LAMBDA distToLine :
            IF distToLine < 0 \/ distToLine > (width * 15 * 100) \div 10
            THEN 0
            ELSE
            Const(cos(mulDiv(Min(Unit, mulDiv(distToLine, Unit, width * 100)),
                             PiMicro \div 2, Unit)), LAMBDA ridgeProfile :
            Const(sin(mulDiv(t, PiMicro, Micro)), LAMBDA alongRidge :
                times(height * times(ridgeProfile, ridgeProfile),
                      alongRidge) \div 2)))))))))

\* gentleDepression(x, z, cx, cz, radius, depth)
gentleDepression(x, z, cx, cz, radius, depth) ==
    Const(mulDiv(x - cx * Unit, 100, radius), LAMBDA dx :
    Const(mulDiv(z - cz * Unit, 100, radius), LAMBDA dz :
    Const(distance(dx, dz, 2 * Micro), LAMBDA dist :
        IF dist < 0 \/ dist > (15 * Unit) \div 10 THEN 0
        ELSE Const(cos(mulDiv(dist, PiMicro, 3 * Unit)), LAMBDA bowl :
                 Max(0, mulDiv(depth * times(bowl, bowl), 6, 10))))))

\* nx = x / (this.width / 2), nz = z / (this.depth / 2), as counts of 1/Micro
normalised(v, half) == mulDiv(v, Micro, half * Centi)

\* revision B, "MAIN MOUNTAIN MASS", "RIDGE CONNECTIONS", "BOWL AREAS": the
\* plateaus and ridges added and the depressions taken off
plateauMass(nx, nz) ==
    broadPlateau(nx, nz, -10, -10, 60, 70, 220)
    + broadPlateau(nx, nz, 15, -35, 50, 60, 260)
    + broadPlateau(nx, nz, 50, -40, 45, 55, 240)
    + wideRidge(nx, nz, -10, -10, 15, -35, 180, 25)
    + wideRidge(nx, nz, 15, -35, 50, -40, 160, 20)
    - gentleDepression(nx, nz, -55, -20, 25, 60)
    - gentleDepression(nx, nz, 0, -55, 20, 50)
    - gentleDepression(nx, nz, 15, -60, 18, 45)
    - gentleDepression(nx, nz, 50, -60, 22, 55)

\* revision B, "VALLEY / BASE AREA": the height lowered towards the front
\* and flattened to 15 for the village
baseArea(nz, height) ==
    Const(Max(0, mulDiv(nz + (3 * Micro) \div 10, 12 * Unit, 10 * Micro)),
          LAMBDA baseFalloff :
    Const(times(height, Max(Unit \div 10,
                            Unit - mulDiv(times(baseFalloff, baseFalloff),
                                          7, 10))), LAMBDA lowered :
        IF nz > Micro \div 2
        THEN Const(mulDiv(nz - Micro \div 2, 2 * Unit, Micro),
                   LAMBDA flatAmount :
                       times(lowered, Unit - flatAmount) + 15 * flatAmount)
        ELSE lowered))

\* revision B, "Edge falloff": the factor height is multiplied by
plateauEdge(nx, nz) ==
    Const(Max(Abs(nx), Abs(nz)), LAMBDA edgeDist :
        IF edgeDist > (85 * Micro) \div 100
        THEN Const(mulDiv(edgeDist - (85 * Micro) \div 100, Unit,
                          (15 * Micro) \div 100), LAMBDA falloff :
                 Unit - mulDiv(falloff, 8, 10))
        ELSE Unit)

\* revision B: calculateHeight(x, z) before the final Math.max
plateauTerrain(g, x, z) ==
    Const(normalised(x, g.width \div 2), LAMBDA nx :
    Const(normalised(z, g.depth \div 2), LAMBDA nz :
        times(baseArea(nz, plateauMass(nx, nz)) + terrainNoise(x, z),
              plateauEdge(nx, nz))))

\* A mutant of calculateHeight: the final Math.max(0, height) is left out.
calculateHeightNoFloor(g, x, z) ==
    IF g.rev = "B" THEN plateauTerrain(g, x, z) ELSE peaksTerrain(g, x, z)

\* calculateHeight(x, z): return Math.max(0, height)
calculateHeight(g, x, z) ==
    Max(0, IF g.rev = "B" THEN plateauTerrain(g, x, z)
           ELSE peaksTerrain(g, x, z))

\* A mutant of terrainHeightAt: once generateHeightmap has filled
\* this.heightmap, the height is read from its nearest vertex.
terrainHeightFromHeightmap(g, x, z) ==
    IF g.heightmap = <<>> THEN calculateHeight(g, x, z)
    ELSE Const(clamp01(((x + (g.width \div 2) * Centi) * MapSegments
                        + (g.width \div 2) * Centi) \div (g.width * Centi),
                       MapSegments), LAMBDA i :
         Const(clamp01(((z + (g.depth \div 2) * Centi) * MapSegments
                        + (g.depth \div 2) * Centi) \div (g.depth * Centi),
                       MapSegments), LAMBDA j :
             g.heightmap[j * (MapSegments + 1) + i + 1]))

\* TerrainGenerator.getHeightAt(x, z): return this.calculateHeight(x, z)
terrainHeightAt(g, x, z) == calculateHeight(g, x, z)

\* The x, z of vertex k (from 0) of PlaneGeometry(width, depth, segments,
\* segments) after rotateX(-PI / 2): rows along z, columns along x
vertexX(g, k) ==
    (((k % (MapSegments + 1)) * g.width * Centi) \div MapSegments)
    - (g.width \div 2) * Centi
vertexZ(g, k) ==
    (((k \div (MapSegments + 1)) * g.depth * Centi) \div MapSegments)
    - (g.depth \div 2) * Centi

\* generateHeightmap(geometry): the height written to every vertex
generateHeightmap(g) ==
    [k \in 1..((MapSegments + 1) * (MapSegments + 1)) |->
        calculateHeight(g, vertexX(g, k - 1), vertexZ(g, k - 1))]

\* What the callers of getHeightAt ask: a point of the mountain, a corner
\* of the domain, a point off the map that falls to the valley floor, a
\* point far off the map, and two points 0.01 apart across the cutoff
\* radius of the first bowl (revisions A and C) or across the rim of the
\* first depression (revision B).
QueryPoints(g) ==
    CASE g.rev = "A" ->
           { <<0, 0>>, <<100000, 80000>>, <<1000000, -1000000>>,
             <<-900000, -1000000>>, <<-12801, -5000>>, <<-12800, -5000>> }
      [] g.rev = "B" ->
           { <<30000, -30000>>, <<120000, 100000>>, <<20000, 1000000>>,
             <<1000000, -2000000>>, <<-21001, -20000>>, <<-21000, -20000>> }
      [] g.rev = "C" ->
           { <<0, 0>>, <<80000, 60000>>, <<-75000, 55000>>,
             <<1000000, 1000000>>, <<-17001, -10000>>, <<-17000, -10000>> }

----------------------------------------------------------------------------
(* TreeGenerator: the three revisions of src/environment/TreeGenerator.js.  *)
(* Positions are [x, y, z] with x, z counts of 1/Centi and y a count of     *)
(* 1/Unit; Math.random() is a count of 1/RandomScale.                       *)

\* All the thresholds the draws are compared with (0.15, 0.4, 0.5, 0.7)
\* and floor(random * 2) are whole at 1/20.
RandomScale == 20

\* Math.random(): the k-th draw of stream s
randomDraw(s, k) ==
    ((((k + 17 * s + 1) * (k + 17 * s + 1)) * 31 + k * 7) % 1009) % RandomScale

\* The grid loop is followed over WindowCells x WindowCells of its cells.
WindowCells == 3

\* new TreeGenerator(terrainGenerator); window is the first cell followed
TreeGenerator(rev, window) ==
    CASE rev = 1 -> [rev |-> 1, treeLineElevation |-> 260,
                     minElevation |-> 15, window |-> window]
      [] rev = 2 -> [rev |-> 2, treeLineElevation |-> 220,
                     minElevation |-> 20, window |-> window]
      [] rev = 3 -> [rev |-> 3, treeLineElevation |-> 200,
                     minElevation |-> 20, window |-> window]

TreeRevisions == {1, 2, 3}

\* const baseSpacing / spacing; const jitter; the delta of estimateSlope
spacingOf(tg) == CASE tg.rev = 1 -> 18 [] tg.rev = 2 -> 25 [] tg.rev = 3 -> 22
jitterOf(tg) == IF tg.rev = 1 THEN 8 ELSE 10
slopeDeltaOf(tg) == IF tg.rev = 1 THEN 4 ELSE 5

Corridor(x, z, width, depth) ==
    [x |-> x, z |-> z, width |-> width, depth |-> depth]

\* getRunCorridors(); the third revision names the fields w and d
getRunCorridors(tg) ==
    CASE tg.rev = 1 ->
           << Corridor(-80, 300, 150, 500), Corridor(-180, 300, 80, 400),
              Corridor(0, 350, 100, 350), Corridor(70, -50, 100, 250),
              Corridor(120, 0, 80, 200), Corridor(320, -150, 120, 300),
              Corridor(280, -100, 80, 200), Corridor(-380, -50, 180, 180),
              Corridor(-20, -350, 150, 120), Corridor(80, -380, 130, 100),
              Corridor(320, -380, 180, 150), Corridor(-100, 650, 400, 200) >>
      [] tg.rev = 2 ->
           << Corridor(-100, 200, 80, 400), Corridor(-60, 300, 60, 300),
              Corridor(-150, 250, 50, 250), Corridor(90, 0, 60, 200),
              Corridor(60, 50, 50, 150), Corridor(340, -100, 80, 200),
              Corridor(300, -50, 60, 150), Corridor(-350, -100, 100, 100),
              Corridor(-30, -250, 80, 100), Corridor(60, -280, 70, 100),
              Corridor(300, -300, 100, 150) >>
      [] tg.rev = 3 ->
           << Corridor(-140, 400, 200, 700), Corridor(-300, 400, 120, 600),
              Corridor(20, 400, 150, 600), Corridor(160, -100, 140, 400),
              Corridor(520, -150, 180, 500), Corridor(-580, -80, 200, 250),
              Corridor(40, -450, 180, 200), Corridor(200, -480, 160, 180),
              Corridor(560, -500, 200, 220), Corridor(-100, 850, 500, 250) >>

\* A mutant of isInRunCorridor: the loop returns after the first corridor.
isInFirstRunCorridor(x, z, corridors) ==
    /\ 2 * x > (2 * corridors[1].x - corridors[1].width) * Centi
    /\ 2 * x < (2 * corridors[1].x + corridors[1].width) * Centi
    /\ 2 * z > (2 * corridors[1].z - corridors[1].depth) * Centi
    /\ 2 * z < (2 * corridors[1].z + corridors[1].depth) * Centi

\* isInRunCorridor(x, z, corridors); isInCorridor in the third revision
isInRunCorridor(x, z, corridors) ==
    \E n \in DOMAIN corridors :
        /\ 2 * x > (2 * corridors[n].x - corridors[n].width) * Centi
        /\ 2 * x < (2 * corridors[n].x + corridors[n].width) * Centi
        /\ 2 * z > (2 * corridors[n].z - corridors[n].depth) * Centi
        /\ 2 * z < (2 * corridors[n].z + corridors[n].depth) * Centi

\* estimateSlope(x, z) (getSlope in the third revision), in percent
estimateSlope(tg, g, x, z) ==
    Const(terrainHeightAt(g, x, z), LAMBDA h0 :
    Const(terrainHeightAt(g, x + slopeDeltaOf(tg) * Centi, z), LAMBDA h1 :
    Const(terrainHeightAt(g, x, z + slopeDeltaOf(tg) * Centi), LAMBDA h2 :
    Const(mulDiv(h1 - h0, 100, slopeDeltaOf(tg) * Unit), LAMBDA dx :
    Const(mulDiv(h2 - h0, 100, slopeDeltaOf(tg) * Unit), LAMBDA dz :
        Sqrt(dx * dx + dz * dz))))))

\* A mutant of outOfElevation: only the tree line is tested.
aboveTreeLine(tg, height) == height > tg.treeLineElevation * Unit

\* height > this.treeLineElevation || height < this.minElevation
outOfElevation(tg, height) ==
    \/ height > tg.treeLineElevation * Unit
    \/ height < tg.minElevation * Unit

\* if (test && Math.random() < p) continue: the draw is made only when the
\* test holds; at is [keep, k], k the index of the next draw
skipWithChance(test, p, s, at) ==
    IF ~at.keep \/ ~test THEN at
    ELSE [keep |-> randomDraw(s, at.k) >= p, k |-> at.k + 1]

\* The tests of generateTreePositions that follow the corridor test, from
\* draw k on: [keep, k]
thin(tg, s, slope, height, k) ==
    CASE tg.rev = 1 ->
           IF slope > 70 THEN [keep |-> FALSE, k |-> k]
           ELSE skipWithChance(height > (tg.treeLineElevation - 40) * Unit, 8, s,
                skipWithChance(slope > 40, 10, s, [keep |-> TRUE, k |-> k]))
      [] tg.rev = 2 ->
           Const(skipWithChance(slope > 60, 14, s, [keep |-> TRUE, k |-> k]),
                 LAMBDA at :
                     IF ~at.keep THEN at
                     ELSE [keep |-> randomDraw(s, at.k) > 3, k |-> at.k + 1])
      [] tg.rev = 3 ->
           IF slope > 60 THEN [keep |-> FALSE, k |-> k]
           ELSE skipWithChance(height > (tg.treeLineElevation - 30) * Unit, 10, s,
                skipWithChance(slope > 35, 10, s, [keep |-> TRUE, k |-> k]))

\* x + (Math.random() - 0.5) * jitter * 2, for the cell coordinate x in
\* world units and the draw r
jittered(tg, x, r) ==
    x * Centi + (((2 * r - RandomScale) * jitterOf(tg) * Centi) \div RandomScale)

\* One candidate tree of the cell at (x, z).  st is [positions, tried, k]:
\* the positions pushed so far, every (jx, jz) tried so far with its
\* height, and the index of the next draw.
candidate(tg, g, s, x, z, st) ==
    Const(jittered(tg, x, randomDraw(s, st.k)), LAMBDA jx :
    Const(jittered(tg, z, randomDraw(s, st.k + 1)), LAMBDA jz :
    Const(terrainHeightAt(g, jx, jz), LAMBDA height :
    Const(Append(st.tried, [x |-> jx, y |-> height, z |-> jz]), LAMBDA tried :
        IF outOfElevation(tg, height)
           \/ isInRunCorridor(jx, jz, getRunCorridors(tg))
        THEN [positions |-> st.positions, tried |-> tried, k |-> st.k + 2]
        ELSE Const(thin(tg, s, estimateSlope(tg, g, jx, jz), height, st.k + 2),
                   LAMBDA at :
                 [positions |-> IF at.keep
                                THEN Append(st.positions,
                                            [x |-> jx, y |-> height, z |-> jz])
                                ELSE st.positions,
                  tried |-> tried, k |-> at.k])))))

\* The body of the grid loop for the cell at (x, z): one candidate in the
\* second revision, 1 + Math.floor(Math.random() * 2) in the others
cell(tg, g, s, x, z, st) ==
    IF tg.rev = 2 THEN candidate(tg, g, s, x, z, st)
    ELSE Const(candidate(tg, g, s, x, z, [st EXCEPT !.k = st.k + 1]),
               LAMBDA first :
                   IF 1 + ((randomDraw(s, st.k) * 2) \div RandomScale) = 2
                   THEN candidate(tg, g, s, x, z, first)
                   ELSE first)

RECURSIVE scanCells(_, _, _, _)
\* the loops over x and z, after the first n cells of the window
scanCells(tg, g, s, n) ==
    IF n = 0 THEN [positions |-> <<>>, tried |-> <<>>, k |-> 0]
    ELSE Const(scanCells(tg, g, s, n - 1), LAMBDA st :
             cell(tg, g, s,
                  -(g.width \div 2)
                      + spacingOf(tg) * (tg.window[1] + ((n - 1) \div WindowCells) + 1),
                  -(g.depth \div 2)
                      + spacingOf(tg) * (tg.window[2] + ((n - 1) % WindowCells) + 1),
                  st))

\* generateTreePositions()
generateTreePositions(tg, g, s) ==
    scanCells(tg, g, s, WindowCells * WindowCells).positions

\* every (jx, jz) generateTreePositions() computed, with its height
triedPositions(tg, g, s) ==
    scanCells(tg, g, s, WindowCells * WindowCells).tried

\* treeTypes.length (treeConfigs.length in the third revision)
TreeTypes == 4

\* A mutant of treesPerType: Math.floor for Math.ceil.
treesPerTypeFloor(n) == n \div TreeTypes

\* Math.ceil(positions.length / treeTypes.length)
treesPerType(n) == (n + TreeTypes - 1) \div TreeTypes

\* The body of treeTypes.forEach for typeIndex: the instanced mesh of the
\* type, its instances at positions[startIdx + i] for i < count.  The
\* random rotation and scale of an instance are not followed.
typeMesh(positions, typeIndex) ==
    Const(typeIndex * treesPerType(Len(positions)), LAMBDA startIdx :
    Const(Min(startIdx + treesPerType(Len(positions)), Len(positions)),
          LAMBDA endIdx :
        [type |-> typeIndex, count |-> endIdx - startIdx,
         instances |-> [i \in 1..Max(0, endIdx - startIdx) |->
                           positions[startIdx + i]]]))

\* The instanced meshes generate() adds to the group: one per tree type
\* whose chunk is not empty (if (count <= 0) return); in the second
\* revision one mesh of positions.length instances
instancedMeshes(tg, positions) ==
    IF tg.rev = 2
    THEN << [type |-> 0, count |-> Len(positions), instances |-> positions] >>
    ELSE SelectSeq([k \in 1..TreeTypes |-> typeMesh(positions, k - 1)],
                   LAMBDA m : m.count > 0)

\* For each pair of revisions, a cell by a corridor edge near the valley
\* floor and one near the tree line; for most, one on a steep slope.
WindowSites(g, rev) ==
    CASE g.rev = "A" /\ rev = 1 -> { <<42, 68>>, <<34, 35>>, <<13, 36>> }
      [] g.rev = "A" /\ rev = 2 -> { <<35, 48>>, <<23, 25>>, <<8, 27>> }
      [] g.rev = "A" /\ rev = 3 -> { <<69, 39>>, <<23, 27>>, <<8, 32>> }
      [] g.rev = "B" /\ rev = 1 -> { <<48, 87>>, <<46, 56>> }
      [] g.rev = "B" /\ rev = 2 -> { <<5, 26>>, <<39, 46>>, <<21, 15>> }
      [] g.rev = "B" /\ rev = 3 -> { <<36, 69>>, <<31, 44>> }
      [] g.rev = "C" /\ rev = 1 -> { <<16, 28>>, <<65, 14>>, <<13, 23>> }
      [] g.rev = "C" /\ rev = 2 -> { <<14, 19>>, <<32, 9>>, <<8, 16>> }
      [] g.rev = "C" /\ rev = 3 -> { <<12, 24>>, <<53, 8>>, <<11, 31>> }

\* The windows followed: those that start at a site or next to it
Windows(g, rev) ==
    { <<w[1] + a, w[2] + b>> : w \in WindowSites(g, rev), a \in 0..1, b \in 0..1 }

----------------------------------------------------------------------------
(* The sky and the lighting: SkyManager of src/environment/Sky.js and the   *)
(* scene main.js sets up.  A colour is the integer of its hex code; a fog   *)
(* density is a count of 1/FogScale; a light intensity, an opacity and the  *)
(* tone-mapping exposure are counts of 1/LightScale.                        *)

FogScale == 100000
LightScale == 100

Position(x, y, z) == [x |-> x, y |-> y, z |-> z]

\* scene, renderer and lights as the top level of main.js leaves them
sceneAtStartup ==
    [background |-> 9357544,          \* 0x8ec8e8
     fogColor |-> 11065578,            \* 0xa8d8ea
     fogDensity |-> 25,                \* 0.00025
     exposure |-> 115,                 \* 1.15
     sunLightColor |-> 16775920,       \* 0xfffaf0
     sunLightIntensity |-> 140,        \* 1.4
     hemiColor |-> 9357544,           \* 0x8ec8e8
     hemiGroundColor |-> 4020797,     \* 0x3d5a3d
     hemiIntensity |-> 60]             \* 0.6

\* SkyManager.generate(): the parts of the group setNightMode works on
generateSky ==
    [topColor |-> 4885449,            \* 0x4a8bc9
     bottomColor |-> 13164784,         \* 0xc8e0f0
     sunColor |-> 16777198,            \* 0xffffee
     sunPosition |-> Position(-600, 900, -400),
     glowColor |-> 16777164,           \* 0xffffcc
     glowOpacity |-> 20,               \* 0.2
     glowPosition |-> Position(-600, 900, -400),
     starsVisible |-> FALSE]

\* setNightMode: what it leaves in the sky group
nightSky(isNight) ==
    IF isNight
    THEN [topColor |-> 657952,       \* 0x0a0a20
          bottomColor |-> 1710650,    \* 0x1a1a3a
          sunColor |-> 13421789,       \* 0xccccdd
          sunPosition |-> Position(-400, 500, 200),
          glowColor |-> 10066363,      \* 0x9999bb
          glowOpacity |-> 15,          \* 0.15
          glowPosition |-> Position(-400, 500, 200),
          starsVisible |-> TRUE]
    ELSE [topColor |-> 4885449,       \* 0x4a8bc9
          bottomColor |-> 13164784,    \* 0xc8e0f0
          sunColor |-> 16777198,       \* 0xffffee
          sunPosition |-> Position(-600, 900, -400),
          glowColor |-> 16777164,      \* 0xffffcc
          glowOpacity |-> 20,          \* 0.2
          glowPosition |-> Position(-600, 900, -400),
          starsVisible |-> FALSE]

\* setNightMode: what it leaves in the scene, the lights and the renderer
nightScene(isNight) ==
    IF isNight
    THEN [background |-> 657941,     \* 0x0a0a15
          fogColor |-> 1710638,       \* 0x1a1a2e
          fogDensity |-> 30,           \* 0.0003
          exposure |-> 50,             \* 0.5
          sunLightColor |-> 6715306,  \* 0x6677aa
          sunLightIntensity |-> 30,    \* 0.3
          hemiColor |-> 2241450,      \* 0x2233aa
          hemiGroundColor |-> 1710634,\* 0x1a1a2a
          hemiIntensity |-> 20]        \* 0.2
    ELSE [background |-> 9357544,     \* 0x8ec8e8
          fogColor |-> 11065578,       \* 0xa8d8ea
          fogDensity |-> 40,           \* 0.0004
          exposure |-> 110,            \* 1.1
          sunLightColor |-> 16775920,  \* 0xfffaf0
          sunLightIntensity |-> 140,   \* 1.4
          hemiColor |-> 9357544,      \* 0x8ec8e8
          hemiGroundColor |-> 4020797,\* 0x3d5a3d
          hemiIntensity |-> 60]        \* 0.6

----------------------------------------------------------------------------
(* The control panel: setupControls of src/ui/Controls.js, on the appState  *)
(* object of main.js.  index.html is not among the sources; every checkbox  *)
(* starts checked except nightMode, as the flags of appState start.         *)

LayerToggles == {"showRuns", "showLifts", "showTrees", "showLabels"}
difficultyFilters == <<"showGreen", "showBlue", "showBlack", "showDouble">>
DifficultyFilters == {difficultyFilters[k] : k \in DOMAIN difficultyFilters}
Checkboxes == LayerToggles \cup DifficultyFilters \cup {"nightMode"}

\* const appState = { showRuns: true, ..., isNight: false, ... }
appStateAtStartup ==
    [showRuns |-> TRUE, showLifts |-> TRUE, showTrees |-> TRUE,
     showLabels |-> TRUE, showGreen |-> TRUE, showBlue |-> TRUE,
     showBlack |-> TRUE, showDouble |-> TRUE, isNight |-> FALSE]

\* A mutant of runVisibility: double-black runs follow the black filter.
runVisibilityDoubleAsBlack(state, difficulty) ==
    CASE difficulty = GREEN -> state.showGreen
      [] difficulty = BLUE -> state.showBlue
      [] difficulty = BLACK -> state.showBlack
      [] difficulty = DIFFICULTY_DOUBLE -> state.showBlack
      [] OTHER -> FALSE

\* the switch of updateRunVisibility: let visible = false; case ...
runVisibility(state, difficulty) ==
    CASE difficulty = GREEN -> state.showGreen
      [] difficulty = BLUE -> state.showBlue
      [] difficulty = BLACK -> state.showBlack
      [] difficulty = DIFFICULTY_DOUBLE -> state.showDouble
      [] OTHER -> FALSE

\* updateRunVisibility(appState): the children of appState.runs whose
\* userData.type is 'run' are the run meshes, and only they
updateRunVisibility(state, meshes) ==
    [k \in DOMAIN meshes |-> runVisibility(state, meshes[k].difficulty)]

----------------------------------------------------------------------------
(* The program *)

NoDelta == -1

Deltas == 0..MaxDelta \cup {HugeDelta}

\* No RunRenderer has been built: the lift renderer is followed alone.
NoRuns ==
    /\ runs = <<>>
    /\ runRev = "ribbon"
    /\ runMeshes = <<>>
    /\ runsGenerated = FALSE
    /\ warnings = <<>>

\* TerrainGenerator.generate() is not followed and nobody else asks for
\* a height.
NoSurvey ==
    /\ terrainMesh = <<>>
    /\ calls = <<>>

\* No TreeGenerator has been built.
NoTrees ==
    /\ trees = <<>>
    /\ treePositions = <<>>
    /\ treeMeshes = <<>>
    /\ treesGenerated = FALSE

\* No control panel is followed: setupControls() has not been called.
NoControls ==
    /\ appState = <<>>
    /\ checked = <<>>
    /\ layers = <<>>
    /\ runVisible = <<>>
    /\ sky = <<>>
    /\ scene = <<>>
    /\ controlsReady = FALSE

\* new LiftRenderer(terrainGenerator)
Init ==
    /\ terrain \in Terrains
    /\ lifts \in LiftTables
    /\ seed \in 0..MaxSeed
    /\ liftGroups = <<>>
    /\ cabins = <<>>
    /\ generated = FALSE
    /\ delta = NoDelta
    /\ frames = 0
    /\ NoRuns
    /\ NoSurvey
    /\ NoTrees
    /\ NoControls

\* LiftRenderer.generate(), called once from init()
generate ==
    /\ ~generated
    /\ liftGroups' = [n \in 1..Len(lifts) |-> createLift(terrain, lifts[n])]
    /\ cabins' = cabinsOfLifts(terrain, lifts, seed, Len(lifts))
    /\ generated' = TRUE
    /\ UNCHANGED <<terrain, lifts, seed, delta, frames>>
    /\ UNCHANGED <<runVars, terrainVars, treeVars, uiVars>>

\* animate() -> appState.lifts.userData.update() -> updateCabins()
updateCabins(dt) ==
    /\ generated
    /\ delta' = dt
    /\ cabins' = [c \in DOMAIN cabins |-> updateCabin(cabins[c], dt)]
    /\ UNCHANGED <<terrain, lifts, seed, liftGroups, generated>>
    /\ UNCHANGED <<runVars, terrainVars, treeVars, uiVars>>

\* one animation frame, any frame time
tick ==
    /\ frames < MaxFrames
    /\ frames' = frames + 1
    /\ \E dt \in Deltas : updateCabins(dt)

Next == generate \/ tick

Spec == Init /\ [][Next]_vars

\* The animation left running at a steady frame time, with stalled
\* (delta = 0) and very long frames among them.  The cabins read the
\* terrain only through the station heights, so one landform is followed.
SteadyDeltas == {0, MaxDelta, HugeDelta}

steadyTick == \E dt \in SteadyDeltas : updateCabins(dt) /\ UNCHANGED frames

movingTick ==
    \E dt \in SteadyDeltas \ {0} : updateCabins(dt) /\ UNCHANGED frames

InitSteady == Init /\ terrain = Landform("ramp", 0, 0, 0)

NextSteady == generate \/ steadyTick

\* init() calls generate() once; animate() re-arms itself through
\* requestAnimationFrame every frame, and the clock advances between frames.
FairSpec ==
    InitSteady /\ [][NextSteady]_vars /\ WF_vars(generate) /\ WF_vars(movingTick)

\* The renderer constructed over a lift table that holds a zero-length lift.
InitZeroLength ==
    /\ terrain \in Terrains
    /\ lifts \in ZeroLengthTables
    /\ seed \in 0..MaxSeed
    /\ liftGroups = <<>>
    /\ cabins = <<>>
    /\ generated = FALSE
    /\ delta = NoDelta
    /\ frames = 0
    /\ NoRuns
    /\ NoSurvey
    /\ NoTrees
    /\ NoControls

ZeroLengthSpec == InitZeroLength /\ [][Next]_vars

\* No LiftRenderer is animated: the run renderer is followed alone.
NoLifts ==
    /\ lifts = <<>>
    /\ seed = 0
    /\ liftGroups = <<>>
    /\ cabins = <<>>
    /\ generated = FALSE
    /\ delta = NoDelta
    /\ frames = 0

\* new RunRenderer(terrainGenerator)
InitRuns ==
    /\ terrain \in RunTerrains
    /\ runs \in RunTables
    /\ runRev \in RunRevisions
    /\ runMeshes = <<>>
    /\ runsGenerated = FALSE
    /\ warnings = <<>>
    /\ NoLifts
    /\ NoSurvey
    /\ NoTrees
    /\ NoControls

\* RunRenderer.generate(), called once from init()
generateRuns ==
    /\ ~runsGenerated
    /\ runMeshes' = meshesOfRuns(terrain, runRev, runs, Len(runs))
    /\ warnings' = warningsOfRuns(runRev, runs, Len(runs))
    /\ runsGenerated' = TRUE
    /\ UNCHANGED <<terrain, seed, liftVars, runs, runRev>>
    /\ UNCHANGED <<terrainVars, treeVars, uiVars>>

NextRuns == generateRuns

RunSpec == InitRuns /\ [][NextRuns]_vars

\* getHeightAt is called at most MaxCalls times.
MaxCalls == 3

\* new TerrainGenerator(), one of the three revisions
InitTerrain ==
    /\ terrain \in {TerrainGenerator(rev) : rev \in Revisions}
    /\ terrainMesh = <<>>
    /\ calls = <<>>
    /\ runs = <<>>
    /\ runRev = "ribbon"
    /\ runMeshes = <<>>
    /\ runsGenerated = FALSE
    /\ warnings = <<>>
    /\ NoLifts
    /\ NoTrees
    /\ NoControls

\* TerrainGenerator.generate(), called once from init(): generateHeightmap
\* writes the heights to the mesh, and revisions A and C keep them in
\* this.heightmap
generateTerrain ==
    /\ terrainMesh = <<>>
    /\ terrainMesh' = generateHeightmap(terrain)
    /\ terrain' = IF terrain.rev = "B" THEN terrain
                  ELSE [terrain EXCEPT !.heightmap = generateHeightmap(terrain)]
    /\ UNCHANGED <<calls, seed, liftVars, runVars, treeVars, uiVars>>

\* terrain.getHeightAt(x, z), from any of its callers
heightQuery(x, z) ==
    /\ Len(calls) < MaxCalls
    /\ calls' = Append(calls, [x |-> x, z |-> z,
                               height |-> terrainHeightAt(terrain, x, z),
                               meshBuilt |-> terrainMesh # <<>>])
    /\ UNCHANGED <<terrain, terrainMesh, seed, liftVars, runVars, treeVars,
                   uiVars>>

NextTerrain ==
    \/ generateTerrain
    \/ \E p \in QueryPoints(terrain) : heightQuery(p[1], p[2])

TerrainSpec == InitTerrain /\ [][NextTerrain]_vars

\* new TreeGenerator(terrainGenerator), over any revision of the terrain
InitTrees ==
    /\ terrain \in {TerrainGenerator(rev) : rev \in Revisions}
    /\ seed \in 0..MaxSeed
    /\ \E rev \in TreeRevisions :
           trees \in {TreeGenerator(rev, w) : w \in Windows(terrain, rev)}
    /\ treePositions = <<>>
    /\ treeMeshes = <<>>
    /\ treesGenerated = FALSE
    /\ runs = <<>>
    /\ runRev = "ribbon"
    /\ runMeshes = <<>>
    /\ runsGenerated = FALSE
    /\ warnings = <<>>
    /\ lifts = <<>>
    /\ liftGroups = <<>>
    /\ cabins = <<>>
    /\ generated = FALSE
    /\ delta = NoDelta
    /\ frames = 0
    /\ NoSurvey
    /\ NoControls

\* TreeGenerator.generate(), called once from init(): the instanced
\* meshes are placed at the positions generateTreePositions() returns
generateTrees ==
    /\ ~treesGenerated
    /\ treePositions' = generateTreePositions(trees, terrain, seed)
    /\ treeMeshes' = instancedMeshes(trees, treePositions')
    /\ treesGenerated' = TRUE
    /\ UNCHANGED <<terrain, seed, trees, liftVars, runVars, terrainVars,
                   uiVars>>

NextTrees == generateTrees

TreeSpec == InitTrees /\ [][NextTrees]_vars

\* getAllRuns() for the control panel: every difficulty, runs that are
\* turned away, a difficulty the switch does not list, no mesh at all
ControlTables ==
    { <<greenDiagonal, blueAcross, blackFour, straightDouble>>,
      <<doubleDiagonal, singlePoint, greenDiagonal>>,
      <<unrated, blueAcross>>,
      <<noPoints>> }

\* the top level of main.js: scene, renderer, lights, appState
InitControls ==
    /\ terrain = Landform("flat", 0, 0, 5)
    /\ runs \in ControlTables
    /\ runRev \in RunRevisions
    /\ runMeshes = <<>>
    /\ runsGenerated = FALSE
    /\ warnings = <<>>
    /\ NoLifts
    /\ NoSurvey
    /\ NoTrees
    /\ appState = appStateAtStartup
    /\ checked = [c \in Checkboxes |-> c # "nightMode"]
    /\ layers = <<>>
    /\ runVisible = <<>>
    /\ sky = <<>>
    /\ scene = sceneAtStartup
    /\ controlsReady = FALSE

\* init(): the groups are generated (a new Object3D is visible), then
\* setupControls registers the handlers
initApp ==
    /\ ~controlsReady
    /\ runMeshes' = meshesOfRuns(terrain, runRev, runs, Len(runs))
    /\ warnings' = warningsOfRuns(runRev, runs, Len(runs))
    /\ runsGenerated' = TRUE
    /\ runVisible' = [k \in DOMAIN runMeshes' |-> TRUE]
    /\ layers' = [runs |-> TRUE, lifts |-> TRUE, trees |-> TRUE,
                  labels |-> TRUE]
    /\ sky' = generateSky
    /\ controlsReady' = TRUE
    /\ UNCHANGED <<terrain, seed, liftVars, runs, runRev, terrainVars, treeVars,
                   appState, checked, scene>>

\* the group or the labels a layer toggle shows and hides
layerOf(id) ==
    CASE id = "showRuns" -> "runs"
      [] id = "showLifts" -> "lifts"
      [] id = "showTrees" -> "trees"
      [] id = "showLabels" -> "labels"

\* 'change' on showRuns, showLifts, showTrees or showLabels
layerChange(id) ==
    /\ controlsReady
    /\ checked' = [checked EXCEPT ![id] = ~@]
    /\ appState' = [appState EXCEPT ![id] = checked'[id]]
    /\ layers' = [layers EXCEPT ![layerOf(id)] = checked'[id]]
    /\ UNCHANGED <<terrain, seed, liftVars, runVars, terrainVars, treeVars,
                   runVisible, sky, scene, controlsReady>>

\* 'change' on showGreen, showBlue, showBlack or showDouble
filterChange(id) ==
    /\ controlsReady
    /\ checked' = [checked EXCEPT ![id] = ~@]
    /\ appState' = [appState EXCEPT ![id] = checked'[id]]
    \* if (!appState.runs) return
    /\ runVisible' = IF runsGenerated
                     THEN updateRunVisibility(appState', runMeshes)
                     ELSE runVisible
    /\ UNCHANGED <<terrain, seed, liftVars, runVars, terrainVars, treeVars,
                   layers, sky, scene, controlsReady>>

\* 'change' on nightMode
nightModeChange ==
    /\ controlsReady
    /\ checked' = [checked EXCEPT !["nightMode"] = ~@]
    /\ appState' = [appState EXCEPT !.isNight = checked'["nightMode"]]
    \* if (appState.sky) skyManager.setNightMode(...)
    /\ sky' = IF sky # <<>> THEN nightSky(checked'["nightMode"]) ELSE sky
    /\ scene' = IF sky # <<>> THEN nightScene(checked'["nightMode"]) ELSE scene
    /\ UNCHANGED <<terrain, seed, liftVars, runVars, terrainVars, treeVars,
                   layers, runVisible, controlsReady>>

NextControls ==
    \/ initApp
    \/ \E id \in LayerToggles : layerChange(id)
    \/ \E id \in DifficultyFilters : filterChange(id)
    \/ nightModeChange

ControlSpec == InitControls /\ [][NextControls]_vars

----------------------------------------------------------------------------
(* Properties *)

Cabins == {cabins[c] : c \in DOMAIN cabins}
Groups == {liftGroups[g] : g \in DOMAIN liftGroups}
groupOf(id) == CHOOSE g \in Groups : g.id = id
cabinsOf(id) == {c \in Cabins : c.liftId = id}

\* generate() has run and no frame has been animated yet
JustGenerated == generated /\ delta = NoDelta
\* at least one updateCabins has run
Animated == generated /\ delta # NoDelta

\* progress p clamped to [0, 1]
Clamp01(p) == IF p >= PScale THEN PScale ELSE IF p <= 0 THEN 0 ELSE p

\* C1: every cabin's progress is within [0, 1], right after creation and
\* after any sequence of updateCabins ticks with any frame time >= 0,
\* very long ones included.
ProgressInRange ==
    \A c \in Cabins : 0 <= c.progress /\ c.progress <= PScale

\* C1 witness: a very long frame has just put one cabin at the summit and
\* another at the base.
ProgressInRangeWitness ==
    /\ delta = HugeDelta
    /\ \E c \in Cabins : c.progress = PScale
    /\ \E c \in Cabins : c.progress = 0

\* C2: in one tick, a cabin whose progress after the increment is >= 1 is
\* put at exactly 1 heading down, one whose progress is <= 0 is put at
\* exactly 0 heading up, and any other keeps its direction; so a direction
\* changes only in a tick that leaves the cabin at 0 or 1, and progress
\* never wraps to the opposite end.
BounceRule ==
    [][generated =>
        \A c \in DOMAIN cabins :
            LET old == cabins[c]
                new == cabins'[c]
                p == advanced(old, delta')
            IN  /\ p >= PScale => new.progress = PScale /\ new.direction = -1
                /\ p <= 0 => new.progress = 0 /\ new.direction = 1
                /\ (0 < p /\ p < PScale) =>
                       new.progress = p /\ new.direction = old.direction
                /\ new.direction # old.direction => new.progress \in {0, PScale}
    ]_vars

\* C2 witness: after an ordinary frame, a cabin that started uphill has
\* turned at the summit, one that started downhill has turned at the base,
\* and a third is still between the ends on its first heading.
BounceRuleWitness ==
    /\ delta \in 1..MaxDelta
    /\ \E c \in Cabins :
           c.index % 2 = 0 /\ c.progress = PScale /\ c.direction = -1
    /\ \E c \in Cabins :
           c.index % 2 = 1 /\ c.progress = 0 /\ c.direction = 1
    /\ \E c \in Cabins :
           /\ 0 < c.progress /\ c.progress < PScale
           /\ c.direction = initialDirection(c.index)

\* Cabin slots of the longest cabin list a lift table produces.
CabinSlots == 1..(2 * ChairCabins)

\* C3: with frames of positive frame time coming forever, every cabin is at
\* progress 1 infinitely often and at progress 0 infinitely often.
PerpetualOscillation ==
    \A i \in CabinSlots :
        /\ []<>(generated /\ (i \in DOMAIN cabins => cabins[i].progress = PScale))
        /\ []<>(generated /\ (i \in DOMAIN cabins => cabins[i].progress = 0))

\* C3 witness: in the running animation a steady frame has brought a cabin
\* that started downhill up to the summit, so it has been at both ends.
PerpetualOscillationWitness ==
    /\ frames = 0
    /\ delta = MaxDelta
    /\ \E c \in Cabins :
           c.index % 2 = 1 /\ c.progress = PScale /\ c.direction = -1

\* C4 as stated: in one tick a cabin's progress moves, before clamping, by
\* speed * direction * delta with no further factor.
IncrementUnscaled ==
    [][generated =>
        \A c \in DOMAIN cabins :
            cabins'[c].progress =
                Clamp01(cabins[c].progress
                        + cabins[c].speed * cabins[c].direction * delta')
    ]_vars

\* C4 as amended: in one tick a cabin's progress moves, before clamping, by
\* speed * direction * delta * 10, speed and direction being the cabin's
\* own before the tick.
IncrementTimesTen ==
    [][generated =>
        \A c \in DOMAIN cabins :
            cabins'[c].progress =
                Clamp01(cabins[c].progress
                        + cabins[c].speed * cabins[c].direction * delta' * 10)
    ]_vars

\* C4 witness: after one frame of the least positive frame time a cabin
\* heading down has moved by ten times its speed, unclamped.
IncrementTimesTenWitness ==
    /\ frames = 1
    /\ delta = 1
    /\ \E c \in Cabins :
           /\ c.direction = -1
           /\ c.progress = initialProgress(c.index, IF c.liftType = GONDOLA THEN 8 ELSE 12)
                                 - 10 * c.speed
           /\ 0 < c.progress

\* C5: createLift seeds 8 cabins for a gondola and 12 otherwise, at the
\* evenly spaced progress values i / cabinCount, i = 0..cabinCount-1,
\* distinct and within [0, 1), heading up for even i and down for odd i.
EvenSeeding ==
    JustGenerated =>
        \A g \in Groups :
            LET cs == cabinsOf(g.id)
                n == IF g.liftType = GONDOLA THEN 8 ELSE 12
            IN  /\ Cardinality(cs) = n
                /\ {c.index : c \in cs} = 0..(n - 1)
                /\ Cardinality({c.progress : c \in cs}) = n
                /\ \A c \in cs :
                       /\ c.progress * n = c.index * PScale
                       /\ 0 <= c.progress /\ c.progress < PScale
                       /\ c.direction = (IF c.index % 2 = 0 THEN 1 ELSE -1)

\* C5 witness: a table of two chairlifts has been generated, 24 cabins.
EvenSeedingWitness ==
    /\ JustGenerated
    /\ Len(liftGroups) = 2
    /\ Len(cabins) = 24

dot(a, b) == a.x * b.x + a.y * b.y + a.z * b.z

\* the point at progress p / PScale of the straight line from a to b
\* (a and b whole)
PointAt(a, b, p) ==
    Lowest(a.x * PScale + (b.x - a.x) * p,
           a.y * PScale + (b.y - a.y) * p,
           a.z * PScale + (b.z - a.z) * p,
           PScale)

\* C6: after every tick a cabin's mesh sits at the interpolation of its
\* lift's base and summit station points at its progress, moved sideways by
\* 2 at right angles to the base->summit line, to the side its direction
\* selects, and raised by 3.
CabinBesideCable ==
    Animated =>
        \A c \in Cabins :
            LET g == groupOf(c.liftId)
                along == subVectors(g.summitPos, g.basePos)
                onLine == PointAt(g.basePos, g.summitPos, c.progress)
                off == subVectors(c.mesh, addY(onLine, 3))
            IN  /\ off.y = 0
                /\ dot(off, along) = 0
                /\ off.x * off.x + off.z * off.z = 2 * 2 * off.d * off.d
                /\ dot(off, cross(along, UP)) * c.direction > 0

\* C6 witness: on a lift that runs diagonally across the map, a tick has
\* left one cabin between the stations heading up and another heading down.
CabinBesideCableWitness ==
    /\ Animated
    /\ \E c1, c2 \in cabinsOf("chair345") :
           /\ c1.direction = 1 /\ 0 < c1.progress /\ c1.progress < PScale
           /\ c2.direction = -1 /\ 0 < c2.progress /\ c2.progress < PScale


\* point p lies on the segment from a to b (a and b whole)
OnSegment(p, a, b) ==
    LET c == cross(subVectors(p, a), subVectors(b, a))
    IN  /\ c.x = 0 /\ c.y = 0 /\ c.z = 0
        /\ Min(a.x, b.x) * p.d <= p.x /\ p.x <= Max(a.x, b.x) * p.d
        /\ Min(a.y, b.y) * p.d <= p.y /\ p.y <= Max(a.y, b.y) * p.d
        /\ Min(a.z, b.z) * p.d <= p.z /\ p.z <= Max(a.z, b.z) * p.d

\* where on its cable line a cabin hangs: its mesh, less the drop and,
\* once animated, less the sideways offset
cablePointOf(c) ==
    LET hung == addY(c.mesh, -CabinDrop)
    IN  IF delta = NoDelta THEN hung
        ELSE subVectors(hung, perpendicularOf(c.basePos, c.summitPos,
                                              c.direction * CabinOffset))

\* C7 as stated: the cabins of a lift with a mid-station travel the
\* two-segment line base -> mid-station -> summit; those of a lift without
\* one travel the straight segment base -> summit.
CabinsFollowPathPoints ==
    generated =>
        \A g \in Groups : \A c \in cabinsOf(g.id) :
            \E k \in 1..(Len(g.pathPoints) - 1) :
                OnSegment(cablePointOf(c), g.pathPoints[k], g.pathPoints[k + 1])

\* C8: a lift with towerCount n >= 2 gets exactly n - 2 towers, the i-th
\* at parameter i / (n - 1) of the straight base -> summit segment,
\* i = 1..n-2, and none at the stations (parameter 0 or 1).
TowerPlacement ==
    generated =>
        \A k \in DOMAIN liftGroups :
            LET g == liftGroups[k]
                n == lifts[k].towerCount
            IN  n >= 2 =>
                  /\ DOMAIN g.towers = 1..(n - 2)
                  /\ Cardinality({g.towers[i].pos : i \in DOMAIN g.towers}) = n - 2
                  /\ \A i \in DOMAIN g.towers :
                         LET tw == g.towers[i]
                         IN  /\ tw.t.n * (n - 1) = i * tw.t.d
                             /\ 0 < tw.t.n /\ tw.t.n < tw.t.d
                             /\ tw.pos.x * (n - 1) =
                                    (g.basePos.x * (n - 1)
                                     + (g.summitPos.x - g.basePos.x) * i) * tw.pos.d
                             /\ tw.pos.z * (n - 1) =
                                    (g.basePos.z * (n - 1)
                                     + (g.summitPos.z - g.basePos.z) * i) * tw.pos.d
                             /\ ~SamePoint(tw.pos, g.basePos)
                             /\ ~SamePoint(tw.pos, g.summitPos)
                             /\ tw.arm.x * tw.pos.d = tw.pos.x * tw.arm.d
                             /\ tw.arm.z * tw.pos.d = tw.pos.z * tw.arm.d

\* C8 witness: the gondola, towerCount 12, stands generated with 10 towers.
TowerPlacementWitness ==
    /\ generated
    /\ \E k \in DOMAIN liftGroups :
           lifts[k].towerCount = 12 /\ Cardinality(DOMAIN liftGroups[k].towers) = 10

\* C9: on any terrain every tower's height is the larger of 15 and
\* (cable height interpolated at the tower's parameter - terrain height at
\* the tower + 5), so the tower top, terrain height + tower height, is at
\* least 5 above the interpolated cable height there.
TowerHeightRule ==
    generated =>
        \A k \in DOMAIN liftGroups : \A i \in DOMAIN liftGroups[k].towers :
            LET g == liftGroups[k]
                tw == g.towers[i]
                d == towerCountOf(lifts[k]) - 1
                \* heights as counts of 1/d
                cable == g.basePos.y * d + (g.summitPos.y - g.basePos.y) * i
                ground == heightAtPoint(terrain, tw.pos, d)
                lifted == cable - ground + 5 * d
            IN  /\ tw.towerHeight >= 15 * d
                /\ tw.towerHeight >= lifted
                /\ tw.towerHeight \in {15 * d, lifted}
                /\ tw.arm.y * d = (ground + tw.towerHeight) * tw.arm.d
                /\ tw.arm.y * d >= (cable + 5 * d) * tw.arm.d

\* C9 witness: one lift has a tower of the minimum height and a tower that
\* the terrain falling away below the cable has made taller.
TowerHeightRuleWitness ==
    /\ generated
    /\ \E g \in Groups : \E i, j \in DOMAIN g.towers :
           /\ g.towers[i].towerHeight = 15 * g.towers[i].t.d
           /\ g.towers[j].towerHeight > 15 * g.towers[j].t.d

\* C10 as stated: at every tower point of every lift the cable, the
\* straight line createCables draws between the station points, is not
\* below the terrain.
CableClearsTerrain ==
    generated =>
        \A k \in DOMAIN liftGroups : \A i \in DOMAIN liftGroups[k].towers :
            LET g == liftGroups[k]
                tw == g.towers[i]
                d == tw.t.d
                a == g.cables.up[1]
                b == g.cables.up[2]
                ground == heightAtPoint(terrain, tw.pos, d)
            IN  \* a.y/a.d + (b.y/b.d - a.y/a.d) * i/d >= ground/d
                a.y * b.d * d + (b.y * a.d - a.y * b.d) * i >= ground * a.d * b.d

\* base and summit of a configured lift are the same point
Coincident(lift) == lift.base.x = lift.summit.x /\ lift.base.z = lift.summit.z

\* C11 as stated: building a lift whose base and summit coincide is refused
\* as a configuration error, so no state holds a lift group with towers,
\* cables and cabins for such a lift.
ZeroLengthLiftRefused ==
    \A k \in DOMAIN liftGroups :
        Coincident(lifts[k]) =>
            ~ /\ liftGroups[k].id = lifts[k].id
              /\ DOMAIN liftGroups[k].towers # {}
              /\ liftGroups[k].cables.up[1] = liftGroups[k].cables.up[2]
              /\ cabinsOf(lifts[k].id) # {}

Meshes == {runMeshes[k] : k \in DOMAIN runMeshes}
runOf(id) == CHOOSE r \in {runs[k] : k \in DOMAIN runs} : r.id = id

\* C12 as stated: building a run with fewer than 2 control points signals
\* a configuration error and fails, so RunRenderer.generate() never returns
\* over a run table that holds such a run.
ShortRunRefused ==
    runsGenerated => \A k \in DOMAIN runs : Len(runs[k].points) >= 2

Difficulties == <<GREEN, BLUE, BLACK, DIFFICULTY_DOUBLE>>
\* 1 for green .. 4 for double; 0 for an unlisted difficulty
rankOf(difficulty) ==
    IF \E k \in DOMAIN Difficulties : Difficulties[k] = difficulty
    THEN CHOOSE k \in DOMAIN Difficulties : Difficulties[k] = difficulty
    ELSE 0

\* C19: in either revision getRunWidth gives green >= blue >= black >=
\* double, and of any two rated runs that were built the easier one is at
\* least as wide as the harder one.
WidthOrdering ==
    /\ \A j, k \in DOMAIN Difficulties :
           j <= k => getRunWidth(runRev, Difficulties[j])
                         >= getRunWidth(runRev, Difficulties[k])
    /\ \A m1, m2 \in Meshes :
           (0 < rankOf(m1.difficulty) /\ rankOf(m1.difficulty) <= rankOf(m2.difficulty))
               => m1.width >= m2.width

\* C19 witness: a green run and a double-black run have been built
\* together, the green one strictly wider.
WidthOrderingWitness ==
    /\ runsGenerated
    /\ \E m1, m2 \in Meshes :
           /\ m1.difficulty = GREEN /\ m2.difficulty = DIFFICULTY_DOUBLE
           /\ m1.width > m2.width

\* a built run of 3 control points on one straight line, of width 10
ScenarioRun(m) ==
    /\ m.rev = "ribbon"
    /\ m.width = 10 * WidthScale
    /\ LET pts == runOf(m.id).points
       IN  /\ Len(pts) = 3
           /\ (pts[2].x - pts[1].x) * (pts[3].z - pts[1].z)
                  = (pts[3].x - pts[1].x) * (pts[2].z - pts[1].z)

\* C20: for a 3-point straight-line run of width 10 on flat terrain of
\* height 5, at every sample of the ribbon the left and right vertices are
\* exactly 10 apart, the line joining them is at right angles to the path,
\* and both have y = 5.5.
RibbonScenario ==
    (runsGenerated /\ terrain = Landform("flat", 0, 0, 5)) =>
        \A m \in Meshes : ScenarioRun(m) =>
            /\ Len(m.geometry) = 51
            /\ \A k \in DOMAIN m.geometry :
                   LET v == m.geometry[k]
                       across == subVectors(v.right, v.left)
                       pts == runOf(m.id).points
                   IN  /\ 2 * v.left.y = 11 * v.left.d
                       /\ 2 * v.right.y = 11 * v.right.d
                       /\ across.x * across.x + across.y * across.y
                              + across.z * across.z = 100 * across.d * across.d
                       /\ across.x * (pts[3].x - pts[1].x)
                              + across.z * (pts[3].z - pts[1].z) = 0

\* C20 witness: the ribbon of the straight 3-point double-black run (width
\* 10) stands built on the flat terrain of height 5, its last sample at the
\* run's last control point.
RibbonScenarioWitness ==
    /\ runsGenerated
    /\ terrain = Landform("flat", 0, 0, 5)
    /\ \E m \in Meshes :
           /\ ScenarioRun(m)
           /\ Len(m.geometry) = 51
           /\ SamePoint(m.geometry[51].p, Lowest(0, 53, 1000, 10))

----------------------------------------------------------------------------
(* The terrain height function *)

Calls == DOMAIN calls

\* where a query point lies in the width x depth rectangle of the terrain
InsideDomain(c) ==
    /\ Abs(c.x) < (terrain.width \div 2) * Centi
    /\ Abs(c.z) < (terrain.depth \div 2) * Centi
OutsideDomain(c) ==
    \/ Abs(c.x) > (terrain.width \div 2) * Centi
    \/ Abs(c.z) > (terrain.depth \div 2) * Centi
OnBoundary(c) == ~InsideDomain(c) /\ ~OutsideDomain(c)

\* the height of the point before calculateHeight's final Math.max
Unfloored(c) == calculateHeightNoFloor(terrain, c.x, c.z)

SamePointSameHeight ==
    \A i, j \in Calls :
        calls[i].x = calls[j].x /\ calls[i].z = calls[j].z
            => calls[i].height = calls[j].height

\* The same point was asked before and after generate() filled
\* this.heightmap, with a query of another point in between.
SamePointSameHeightWitness ==
    /\ terrain.heightmap # <<>>
    /\ \E i, k, j \in Calls :
        /\ i < k /\ k < j
        /\ calls[i].x = calls[j].x /\ calls[i].z = calls[j].z
        /\ calls[k].x # calls[i].x
        /\ ~calls[i].meshBuilt /\ calls[j].meshBuilt

\* The ceiling the specification gives the height: the heights of all
\* peaks (plateaus) and ridges plus the amplitudes of the noise octaves.
\*   A: 2030 + 1180 + 22.5    B: 720 + 340 + 14    C: 883 + 530 + 26.25
heightCeiling(g) ==
    CASE g.rev = "A" -> (32325 * Unit) \div 10
      [] g.rev = "B" -> 1074 * Unit
      [] g.rev = "C" -> (143925 * Unit) \div 100

\* C15: getHeightAt(x, z) never exceeds the sum of all configured primitive
\* heights plus the sum of the noise amplitudes, also far outside the
\* terrain domain.
HeightBelowCeiling ==
    \A i \in Calls : calls[i].height <= heightCeiling(terrain)

\* A slope no smooth piece of the terrain reaches near the mountain, in
\* height per unit of distance.
SlopeBound == 50

\* C16: getHeightAt has no jump: two points of the same z no more than
\* one unit apart in x differ in height by no more than SlopeBound times
\* their distance, also across the cutoff radius of a bowl.
NoJump ==
    \A i, j \in Calls :
        /\ calls[i].z = calls[j].z
        /\ calls[i].x < calls[j].x
        /\ calls[j].x - calls[i].x <= Centi
        => Abs(calls[j].height - calls[i].height) * Centi
               <= SlopeBound * (calls[j].x - calls[i].x) * Unit

----------------------------------------------------------------------------
(* The forest *)

Trees == DOMAIN treePositions

\* (x, z) lies strictly inside the box of corridor c
StrictlyInside(x, z, c) ==
    /\ 2 * Abs(x - c.x * Centi) < c.width * Centi
    /\ 2 * Abs(z - c.z * Centi) < c.depth * Centi

CorridorBoxes ==
    {getRunCorridors(trees)[n] : n \in DOMAIN getRunCorridors(trees)}

\* the points the grid loop tried
Tried ==
    LET tried == triedPositions(trees, terrain, seed)
    IN  {tried[n] : n \in DOMAIN tried}

ElevationAllowed(y) ==
    /\ trees.minElevation * Unit <= y
    /\ y <= trees.treeLineElevation * Unit

\* C17: no position returned by generateTreePositions lies strictly inside
\* a corridor box of getRunCorridors.
NoTreeInCorridor ==
    \A n \in Trees : \A c \in CorridorBoxes :
        ~StrictlyInside(treePositions[n].x, treePositions[n].z, c)

\* Trees were placed, and a point the loop tried at an allowed elevation
\* was inside a corridor.
NoTreeInCorridorWitness ==
    /\ treesGenerated
    /\ treePositions # <<>>
    /\ \E t \in Tried : \E c \in CorridorBoxes :
           StrictlyInside(t.x, t.z, c) /\ ElevationAllowed(t.y)

\* C18: every position returned by generateTreePositions has y equal to
\* getHeightAt at its own (x, z), and minElevation <= y <= treeLineElevation.
TreeElevation ==
    \A n \in Trees :
        /\ treePositions[n].y
               = terrainHeightAt(terrain, treePositions[n].x, treePositions[n].z)
        /\ ElevationAllowed(treePositions[n].y)

\* Trees were placed, and a point the loop tried outside every corridor
\* was above the tree line or below the minimum elevation.
TreeElevationWitness ==
    /\ treesGenerated
    /\ treePositions # <<>>
    /\ \E t \in Tried :
           /\ ~ElevationAllowed(t.y)
           /\ \A c \in CorridorBoxes : ~StrictlyInside(t.x, t.z, c)

----------------------------------------------------------------------------
(* The control panel *)

\* the checkbox that filters a difficulty
filterFor(difficulty) ==
    CASE difficulty = GREEN -> "showGreen"
      [] difficulty = BLUE -> "showBlue"
      [] difficulty = BLACK -> "showBlack"
      [] difficulty = DIFFICULTY_DOUBLE -> "showDouble"

Rated == {GREEN, BLUE, BLACK, DIFFICULTY_DOUBLE}

\* C21: whatever change events the difficulty filters and the layer toggles
\* have received, the visible flag of every run mesh is the checked state
\* of the filter of the mesh's own difficulty.
RunVisibleAsFiltered ==
    controlsReady =>
        \A k \in DOMAIN runMeshes :
            runMeshes[k].difficulty \in Rated =>
                runVisible[k] = checked[filterFor(runMeshes[k].difficulty)]

\* Filters and layer toggles have both been used: the runs layer is hidden,
\* a shown green mesh stands next to one of a difficulty filtered out.
RunVisibleAsFilteredWitness ==
    /\ controlsReady
    /\ ~layers.runs
    /\ ~checked["showLabels"]
    /\ \E j, k \in DOMAIN runMeshes :
           /\ runMeshes[j].difficulty = GREEN
           /\ runVisible[j]
           /\ runMeshes[k].difficulty = DIFFICULTY_DOUBLE
           /\ ~runVisible[k]
           /\ checked["showBlack"]

----------------------------------------------------------------------------
(* The forest: slope *)

\* the slope, in percent, above which a revision turns a candidate away or
\* thins hardest: 0.7 in the first, 0.6 in the second and third
steepThreshold(tg) == IF tg.rev = 1 THEN 70 ELSE 60

\* C22: no position generateTreePositions returned has an estimated slope
\* above the steep threshold, whatever Math.random() drew.
NoSteepTree ==
    treesGenerated =>
        \A t \in Trees :
            estimateSlope(trees, terrain, treePositions[t].x,
                          treePositions[t].z) <= steepThreshold(trees)

----------------------------------------------------------------------------
(* The ribbon *)

Ribbons == {m \in Meshes : m.rev = "ribbon"}

\* the edge vertex v stands 0.5 above the terrain at its own (x, z)
OnTerrain(v) == 2 * v.y = 2 * heightAtPoint(terrain, v, v.d) + v.d

\* C23: every edge vertex of a ribbon has y = getHeightAt at the vertex's
\* own (x, z), plus 0.5.
EdgeOnTerrain ==
    \A m \in Ribbons :
        \A k \in DOMAIN m.geometry :
            OnTerrain(m.geometry[k].left) /\ OnTerrain(m.geometry[k].right)

\* A ribbon lies across a slope: at one sample its two edges are at
\* different heights, neither 0.2 above the centreline sample.
EdgeOnTerrainWitness ==
    /\ runsGenerated
    /\ \E m \in Ribbons :
           \E k \in DOMAIN m.geometry :
               LET v == m.geometry[k]
               IN  /\ v.left.y * v.right.d # v.right.y * v.left.d
                   /\ 5 * v.left.y * v.p.d # (5 * v.p.y + v.p.d) * v.left.d
                   /\ 5 * v.right.y * v.p.d # (5 * v.p.y + v.p.d) * v.right.d

\* the indices of the triangles of step i (0-based), as a set
StepIndices(m, i) ==
    {m.indices[j][c] : j \in {2 * i + 1, 2 * i + 2}, c \in 1..3}

\* C24: a ribbon of n samples has 2n vertices, the left and then the right
\* edge of each sample in sample order, and 2(n-1) triangles; the two
\* triangles of step i use only the vertices 2i .. 2i+3, and every index
\* is one of 0 .. 2n-1.
RibbonStrip ==
    \A m \in Ribbons :
        LET n == Len(m.geometry)
        IN  /\ Len(m.vertices) = 2 * n
            /\ \A k \in 1..n :
                   /\ m.vertices[2 * k - 1] = m.geometry[k].left
                   /\ m.vertices[2 * k] = m.geometry[k].right
            /\ Len(m.indices) = 2 * (n - 1)
            /\ \A i \in 0..(n - 2) :
                   StepIndices(m, i) \subseteq {2 * i, 2 * i + 1, 2 * i + 2, 2 * i + 3}
            /\ \A j \in DOMAIN m.indices :
                   \A c \in 1..3 : m.indices[j][c] \in 0..(2 * n - 1)

\* A ribbon of 51 samples stands built; its last triangle ends on the last
\* vertex, 101, and its two edges are distinct points.
RibbonStripWitness ==
    /\ runsGenerated
    /\ \E m \in Ribbons :
           /\ Len(m.geometry) = RibbonSegments + 1
           /\ Len(m.vertices) = 102
           /\ m.indices[100] = <<99, 100, 101>>
           /\ ~SamePoint(m.vertices[101], m.vertices[102])

\* C25: the number of samples taken along a run's curve grows with the
\* run's number of control points and is never below 20.
SamplesScaleWithPoints ==
    \A m1, m2 \in Meshes :
        /\ m1.segments >= MinTubeSegments
        /\ Len(runOf(m1.id).points) < Len(runOf(m2.id).points)
               => m1.segments < m2.segments

----------------------------------------------------------------------------
(* The terrain height function: order of composition *)

\* the landforms of the terrain and the noise, summed, at a query point
LandformsAndNoise(c) ==
    IF terrain.rev = "B"
    THEN plateauMass(normalised(c.x, terrain.width \div 2),
                     normalised(c.z, terrain.depth \div 2))
         + terrainNoise(c.x, c.z)
    ELSE landforms(terrain, c.x, c.z) + noiseHeight(terrain, c.x, c.z)

\* the blend towards the flat base area (none in revision C)
BaseBlend(c, height) ==
    IF terrain.rev = "B"
    THEN baseArea(normalised(c.z, terrain.depth \div 2), height)
    ELSE flattenVillage(terrain, c.z, height)

\* the factor of the edge falloff
EdgeFalloff(c) ==
    IF terrain.rev = "B"
    THEN plateauEdge(normalised(c.x, terrain.width \div 2),
                     normalised(c.z, terrain.depth \div 2))
    ELSE calculateEdgeFalloff(terrain, c.x, c.z)

InCodeOrder(c) ==
    CASE terrain.rev = "A" ->
           BaseBlend(c, times(LandformsAndNoise(c), EdgeFalloff(c)))
      [] terrain.rev = "B" ->
           times(BaseBlend(c, LandformsAndNoise(c) - terrainNoise(c.x, c.z))
                     + terrainNoise(c.x, c.z),
                 EdgeFalloff(c))
      [] terrain.rev = "C" ->
           times(LandformsAndNoise(c), EdgeFalloff(c))

EdgeFloor == Unit \div 20

\* C27: the factor of the edge falloff calculateHeight multiplies by is at
\* least a fixed small positive constant at every point, on and beyond the
\* boundary of the domain too.
EdgeFalloffFloor ==
    \A i \in Calls : EdgeFalloff(calls[i]) >= EdgeFloor

----------------------------------------------------------------------------
(* Cabins at the ends of the cable *)

\* C28: in every state of the cabins, right after createLift and after any
\* ticks, a cabin at progress 1 is heading down and a cabin at progress 0
\* is heading up.
EndpointHeading ==
    \A c \in Cabins :
        /\ c.progress = PScale => c.direction = -1
        /\ c.progress = 0 => c.direction = 1

\* A stalled frame (delta = 0) finds one cabin resting at the summit,
\* turned down, and another at the base, turned up.
EndpointHeadingWitness ==
    /\ Animated
    /\ delta = 0
    /\ \E c \in Cabins : c.progress = PScale /\ c.direction = -1
    /\ \E c \in Cabins : c.progress = 0 /\ c.direction = 1 /\ c.index # 0

----------------------------------------------------------------------------
(* The forest: instanced meshes *)

RECURSIVE InstancesOf(_, _)
\* the instances of the first n meshes, one mesh after the other
InstancesOf(meshes, n) ==
    IF n = 0 THEN <<>>
    ELSE InstancesOf(meshes, n - 1) \o meshes[n].instances

RECURSIVE CountOf(_, _)
\* the instance counts of the first n meshes, summed
CountOf(meshes, n) ==
    IF n = 0 THEN 0 ELSE CountOf(meshes, n - 1) + meshes[n].count

\* C29: generate() puts every position generateTreePositions returned in
\* exactly one instanced mesh: the per-type counts sum to the number of
\* positions, the meshes hold the positions in contiguous chunks, none
\* skipped and none twice, and a type whose chunk is empty has no mesh.
EveryTreeInstanced ==
    treesGenerated =>
        /\ CountOf(treeMeshes, Len(treeMeshes)) = Len(treePositions)
        /\ InstancesOf(treeMeshes, Len(treeMeshes)) = treePositions
        /\ \A k \in DOMAIN treeMeshes :
               treeMeshes[k].count = Len(treeMeshes[k].instances)
        /\ trees.rev # 2 =>
               /\ Len(treeMeshes) <= TreeTypes
               /\ \A k \in DOMAIN treeMeshes :
                      /\ treeMeshes[k].count > 0
                      /\ treeMeshes[k].count
                             <= treesPerType(Len(treePositions))

\* The positions do not divide evenly: the last type has no mesh, or a
\* smaller one than the first.
EveryTreeInstancedWitness ==
    /\ treesGenerated
    /\ trees.rev # 2
    /\ Len(treePositions) % TreeTypes # 0
    /\ Len(treePositions) > TreeTypes
    /\ \/ Len(treeMeshes) < TreeTypes
       \/ treeMeshes[Len(treeMeshes)].count < treeMeshes[1].count

----------------------------------------------------------------------------
(* Night mode *)

\* C30: night mode is a round trip: whenever the night mode box is
\* unchecked, after being checked and unchecked any number of times, the
\* scene background, the fog colour and density, the sun and hemisphere
\* light colours and intensities, the tone-mapping exposure, the sky dome
\* colours, the sun and glow positions and the star visibility have their
\* startup values.
NightRoundTrip ==
    (controlsReady /\ ~checked["nightMode"]) =>
        /\ scene = sceneAtStartup
        /\ sky = generateSky

====
